---- MODULE Spec2Model ----
(***************************************************************************)
(* Model of the latch-crabbing B+tree of src/include/tree/lock_crabbing.h: *)
(* QueryContext, LeafNode, InternalNode, MemoryBTree and MemoryIterator.   *)
(*                                                                         *)
(* The heap is a function from node addresses to node records.  A node's   *)
(* latch has the node's address as its name; latch 0 is the tree latch.    *)
(* Array indices are 0-based as in the source; At(s, i) reads slot i.      *)
(* The right-sibling pointer of internal nodes is only ever copied by the  *)
(* source, never followed, and is left out of the node record.             *)
(***************************************************************************)
EXTENDS Integers, Sequences, FiniteSets, TLC

VARIABLES
  heap,    \* node address -> node record (kind "FREE" when not allocated)
  root,    \* MemoryBTree::root_
  latch,   \* latch name -> [x: exclusive holder or 0, s: set of shared holders]
  th,      \* thread -> the thread's QueryContext, iterator and call state
  ub,      \* undefined behaviour met by the last step (set of event names)
  af,      \* assert() conditions that were false in the last step
  caps,    \* the template arguments [L |-> LeafCapacity, I |-> InternalCapacity]
  gmap     \* the key -> value map the completed writes describe (0: absent)

vars == <<heap, root, latch, th, ub, af, caps, gmap>>

----------------------------------------------------------------------------
(* Bounds of the model *)

MaxKey == 5
MaxVal == 2
MaxNodes == 12
MaxLeafCap == 3
MaxIntCap == 3
MaxStale == 2
MaxScanKey == 4
MaxValKey == 1
MaxCalls == 2
MaxWrites == 1
MaxOut == 3

(* Program constants *)

OVERFLOW_SIZE == 1

Keys == 1..MaxKey
Vals == 1..MaxVal

(* Values are opaque to the tree: only the keys up to MaxValKey are written *)
(* with more than one value.                                               *)
ValsOf(k) == IF k <= MaxValKey THEN Vals ELSE {1}
NodeIds == 1..MaxNodes
LatchIds == 0..MaxNodes
TreeLatch == 0
Threads == {1, 2}

UNDERFLOW_BOUND(n) == (n + 1) \div 2

----------------------------------------------------------------------------
(* Arrays *)

At(s, i) == s[i + 1]
InsertAt(s, pos, x) == SubSeq(s, 1, pos) \o <<x>> \o SubSeq(s, pos + 1, Len(s))
RemoveAt(s, pos) == SubSeq(s, 1, pos) \o SubSeq(s, pos + 2, Len(s))
SetAt(s, i, x) == [s EXCEPT ![i + 1] = x]
Prefix(s, n) == SubSeq(s, 1, n)
Suffix(s, from) == SubSeq(s, from + 1, Len(s))

(* std::lower_bound over keys[first .. first+len): index of the first slot *)
(* whose key is not less than key, found by halving.                       *)
RECURSIVE LowerBoundFrom(_, _, _, _)
LowerBoundFrom(keys, first, len, key) ==
  IF len <= 0 THEN first
  ELSE LET half == len \div 2
           mid == first + half
       IN IF At(keys, mid) < key
          THEN LowerBoundFrom(keys, mid + 1, len - half - 1, key)
          ELSE LowerBoundFrom(keys, first, half, key)

LowerBound(keys, n, key) == LowerBoundFrom(keys, 0, n, key)

----------------------------------------------------------------------------
(* Nodes *)

FreeNode == [kind |-> "FREE", keys |-> <<>>, vals |-> <<>>, child |-> <<>>, right |-> 0]
EmptyLeaf == [kind |-> "LEAF", keys |-> <<>>, vals |-> <<>>, child |-> <<>>, right |-> 0]

Size(n) == Len(n.keys)
LEFTMOST_KEY(n) == At(n.keys, 0)
RIGHTMOST_KEY(n) == At(n.keys, Size(n) - 1)

(* LeafNode::SearchKeyIndex: <<index, found>> *)
SearchKeyIndex(n, key) ==
  LET index == LowerBound(n.keys, Size(n), key)
  IN <<index, index < Size(n) /\ At(n.keys, index) = key>>

(* InternalNode::SearchChildIndex: lower_bound over the first Size-1 keys *)
SearchChildIndex(n, key) == LowerBound(n.keys, Size(n) - 1, key)

LeafShiftAndInsert(n, key, val, pos) ==
  [n EXCEPT !.keys = InsertAt(n.keys, pos, key), !.vals = InsertAt(n.vals, pos, val)]

LeafDeleteIndex(n, index) ==
  [n EXCEPT !.keys = RemoveAt(n.keys, index), !.vals = RemoveAt(n.vals, index)]

InternalShiftAndInsert(n, key, child, pos) ==
  [n EXCEPT !.keys = InsertAt(n.keys, pos, key), !.child = InsertAt(n.child, pos, child)]

InternalDeleteIndex(n, index) ==
  [n EXCEPT !.keys = RemoveAt(n.keys, index), !.child = RemoveAt(n.child, index)]

----------------------------------------------------------------------------
(* The machine: a record m of the program's memory, on which the code's    *)
(* functions are state transformers.  m.th[t] is thread t's private state. *)

NoSplit == [left |-> 0, right |-> 0, bkey |-> 0]

(* MemoryIterator: current_, offset_, key_high_, upper_bound_; live, lo,   *)
(* out and past record the scan for the properties: whether the caller     *)
(* still uses the iterator, key_low, the entries its Next calls have       *)
(* returned so far, and whether key_low was above every key of the leaf    *)
(* LocateKey selected.                                                     *)
NoIterator ==
  [cur |-> 0, off |-> 0, hi |-> 0, bounded |-> FALSE, live |-> FALSE, lo |-> 0, out |-> <<>>,
   past |-> FALSE]

IdleThread ==
  [pc |-> "idle", op |-> "none", key |-> 0, val |-> 0,
   lat |-> <<>>, unlk |-> 0, base |-> 0,
   path |-> <<>>, tix |-> <<>>, cur |-> 0,
   split |-> NoSplit,
   fr |-> 0, und |-> FALSE, ret |-> FALSE, rkey |-> 0, rval |-> 0, err |-> FALSE,
   pre |-> 0, dead |-> FALSE, calls |-> 0, clean |-> TRUE, it |-> NoIterator]

FreeLatch == [x |-> 0, s |-> {}]

Flag(m, e) == [m EXCEPT !.ub = @ \cup {e}]
Check(m, cond, e) == IF cond THEN m ELSE [m EXCEPT !.af = @ \cup {e}]

(* std::shared_mutex: can thread t take latch l in this mode without waiting *)
CanLock(m, t, l, mode) ==
  IF mode = "X" THEN m.latch[l].x = 0 /\ m.latch[l].s = {}
  ELSE IF mode = "S" THEN m.latch[l].x = 0
  ELSE TRUE

Lock(m, t, l, mode) ==
  LET m1 == IF l # TreeLatch /\ m.heap[l].kind = "FREE" THEN Flag(m, "lock_freed") ELSE m
  IN IF mode = "X" THEN [m1 EXCEPT !.latch[l].x = t]
     ELSE IF mode = "S" THEN [m1 EXCEPT !.latch[l].s = @ \cup {t}]
     ELSE m1

(* unlock() / unlock_shared(): unlocking a latch the thread does not hold  *)
(* in that mode, or a latch of a freed node, is undefined behaviour.       *)
Unlock(m, t, l, mode) ==
  LET held == IF mode = "X" THEN m.latch[l].x = t ELSE t \in m.latch[l].s
      m1 == IF l # TreeLatch /\ m.heap[l].kind = "FREE" THEN Flag(m, "unlock_freed") ELSE m
      m2 == IF held THEN m1 ELSE Flag(m1, "unlock_unheld")
  IN IF ~held THEN m2
     ELSE IF mode = "X" THEN [m2 EXCEPT !.latch[l].x = 0]
     ELSE [m2 EXCEPT !.latch[l].s = @ \ {t}]

RECURSIVE UnlockRange(_, _, _, _, _)
UnlockRange(m, t, from, to, mode) ==
  IF from >= to THEN m
  ELSE UnlockRange(Unlock(m, t, At(m.th[t].lat, from), mode), t, from + 1, to, mode)

(* QueryContext::AcquireLatch, after the wait: the returned index is       *)
(* Depth(m', t).                                                           *)
AcquireLatch(m, t, l, mode) ==
  LET m1 == Lock(m, t, l, mode)
  IN [m1 EXCEPT !.th[t].lat = Append(@, l)]

Depth(m, t) == Len(m.th[t].lat) - 1

ReplaceLatch(m, t, idx, l, mode) ==
  LET m1 == Unlock(m, t, At(m.th[t].lat, idx), mode)
  IN [m1 EXCEPT !.th[t].lat = SetAt(@, idx, l)]

ReleaseLatch(m, t, upto, mode) ==
  IF m.th[t].unlk >= upto THEN m
  ELSE LET m1 == Check(m, upto <= Len(m.th[t].lat), "ReleaseLatch_upto")
           m2 == UnlockRange(m1, t, m.th[t].unlk, upto, mode)
       IN [m2 EXCEPT !.th[t].unlk = upto]

ReleaseLatchFromParent(m, t, parent_depth, mode) ==
  LET m1 == Check(m, m.th[t].unlk = parent_depth, "ReleaseLatchFromParent_depth")
      m2 == UnlockRange(m1, t, parent_depth, Len(m.th[t].lat), mode)
  IN [m2 EXCEPT !.th[t].unlk = Len(m.th[t].lat)]

ContextClear(m, t) == [m EXCEPT !.th[t].lat = <<>>, !.th[t].unlk = 0]

(* operator new: the lowest free address; 0 when the heap of the model is  *)
(* exhausted (never the case within the bounds, see HeapNotExhausted).     *)
NewAddr(m) ==
  IF \E a \in NodeIds : m.heap[a].kind = "FREE"
  THEN CHOOSE a \in NodeIds : m.heap[a].kind = "FREE" /\ \A b \in NodeIds : b < a => m.heap[b].kind # "FREE"
  ELSE 0

FreeCount(m) == Cardinality({a \in NodeIds : m.heap[a].kind = "FREE"})

(* new Node(...): the constructor initialises the node and its latch *)
Construct(m, a, node) == [m EXCEPT !.heap[a] = node, !.latch[a] = FreeLatch]

(* operator delete.  The memory keeps the latch word until it is reused;   *)
(* destroying a locked std::shared_mutex is undefined behaviour.           *)
FreeNodeAt(m, a) ==
  LET m1 == IF m.latch[a] # FreeLatch THEN Flag(m, "free_latched") ELSE m
  IN [m1 EXCEPT !.heap[a] = FreeNode]

SetRet(m, t, r) == [m EXCEPT !.th[t].ret = r]

----------------------------------------------------------------------------
(* LeafNode.  Each function runs from the moment its first AcquireLatch    *)
(* has stopped waiting.                                                    *)

(* Mutation of LeafSplit: the new leaf is built without the right sibling  *)
(* of the leaf that splits.                                                *)
LeafSplitUnlinked(m, t, n, insert_pos) ==
  LET node == m.heap[n]
      key == m.th[t].key
      val == m.th[t].val
      boundary_idx == UNDERFLOW_BOUND(Size(node))
      a == NewAddr(m)
      new_sibling == [kind |-> "LEAF",
                      keys |-> SubSeq(node.keys, boundary_idx + 1, m.L),
                      vals |-> SubSeq(node.vals, boundary_idx + 1, m.L),
                      child |-> <<>>, right |-> 0]
      cut == [node EXCEPT !.keys = Prefix(node.keys, boundary_idx),
                          !.vals = Prefix(node.vals, boundary_idx),
                          !.right = a]
      left == IF insert_pos < boundary_idx
              THEN LeafShiftAndInsert(cut, key, val, insert_pos) ELSE cut
      right == IF insert_pos < boundary_idx
               THEN new_sibling
               ELSE LeafShiftAndInsert(new_sibling, key, val, insert_pos - boundary_idx)
      m1 == [Construct(m, a, right) EXCEPT !.heap[n] = left]
  IN [m1 EXCEPT !.th[t].split = [left |-> n, right |-> a, bkey |-> RIGHTMOST_KEY(left)],
                !.th[t].ret = TRUE]

LeafSplit(m, t, n, insert_pos) ==
  LET node == m.heap[n]
      key == m.th[t].key
      val == m.th[t].val
      boundary_idx == UNDERFLOW_BOUND(Size(node))
      a == NewAddr(m)
      \* LeafNode(keys, values, start_idx, right_sibling) copies [start_idx, Capacity)
      new_sibling == [kind |-> "LEAF",
                      keys |-> SubSeq(node.keys, boundary_idx + 1, m.L),
                      vals |-> SubSeq(node.vals, boundary_idx + 1, m.L),
                      child |-> <<>>, right |-> node.right]
      cut == [node EXCEPT !.keys = Prefix(node.keys, boundary_idx),
                          !.vals = Prefix(node.vals, boundary_idx),
                          !.right = a]
      left == IF insert_pos < boundary_idx
              THEN LeafShiftAndInsert(cut, key, val, insert_pos) ELSE cut
      right == IF insert_pos < boundary_idx
               THEN new_sibling
               ELSE LeafShiftAndInsert(new_sibling, key, val, insert_pos - boundary_idx)
      m1 == [Construct(m, a, right) EXCEPT !.heap[n] = left]
      m2 == IF insert_pos < boundary_idx /\ Size(cut) >= m.L THEN Flag(m1, "oob_leaf") ELSE m1
      m3 == Check(m2, Size(left) > 0, "RIGHTMOST_KEY_size")
  IN [m3 EXCEPT !.th[t].split = [left |-> n, right |-> a, bkey |-> RIGHTMOST_KEY(left)],
                !.th[t].ret = TRUE]

(* Mutation of LeafInsert: the key is inserted without the test for an     *)
(* entry that already holds it.                                            *)
LeafInsertNoLookup(m, t, n) ==
  LET m1 == AcquireLatch(m, t, n, "X")
      depth == Depth(m1, t)
      node == m1.heap[n]
      m2 == IF Size(node) < m.L THEN ReleaseLatch(m1, t, depth, "X") ELSE m1
      insert_pos == SearchKeyIndex(node, m.th[t].key)[1]
  IN IF Size(node) < m.L
     THEN SetRet(ReleaseLatch([m2 EXCEPT !.heap[n] =
                                  LeafShiftAndInsert(node, m.th[t].key, m.th[t].val, insert_pos)],
                              t, depth + 1, "X"), t, FALSE)
     ELSE LeafSplit(m2, t, n, insert_pos)

LeafInsert(m, t, n) ==
  LET m1 == AcquireLatch(m, t, n, "X")
      depth == Depth(m1, t)
      node == m1.heap[n]
      m2 == IF Size(node) < m.L THEN ReleaseLatch(m1, t, depth, "X") ELSE m1
      ski == SearchKeyIndex(node, m.th[t].key)
      insert_pos == ski[1]
      found == ski[2]
  IN IF found
     THEN SetRet(ReleaseLatch([m2 EXCEPT !.heap[n].vals = SetAt(@, insert_pos, m.th[t].val)],
                              t, depth + 1, "X"), t, FALSE)
     ELSE IF Size(node) < m.L
     THEN SetRet(ReleaseLatch([m2 EXCEPT !.heap[n] =
                                  LeafShiftAndInsert(node, m.th[t].key, m.th[t].val, insert_pos)],
                              t, depth + 1, "X"), t, FALSE)
     ELSE LeafSplit(m2, t, n, insert_pos)

(* LeafSearch that reports a key found without the test of the entry at    *)
(* its lower bound                                                         *)
LeafSearchNoKeyTest(m, t, n) ==
  LET m1 == AcquireLatch(m, t, n, "S")
      depth == Depth(m1, t)
      m2 == ReleaseLatch(m1, t, depth, "S")
      node == m2.heap[n]
      ski == SearchKeyIndex(node, m.th[t].key)
      m3 == [m2 EXCEPT !.th[t].ret = TRUE,
                       !.th[t].rval = IF ski[2] THEN At(node.vals, ski[1]) ELSE 0]
  IN ReleaseLatch(m3, t, depth + 1, "S")

LeafSearch(m, t, n) ==
  LET m1 == AcquireLatch(m, t, n, "S")
      depth == Depth(m1, t)
      m2 == ReleaseLatch(m1, t, depth, "S")
      node == m2.heap[n]
      ski == SearchKeyIndex(node, m.th[t].key)
      m3 == [m2 EXCEPT !.th[t].ret = ski[2],
                       !.th[t].rval = IF ski[2] THEN At(node.vals, ski[1]) ELSE 0]
  IN ReleaseLatch(m3, t, depth + 1, "S")

(* Mutation of LeafDelete: the entry at the lower bound is removed without *)
(* the test that it holds the key.                                         *)
LeafDeleteNoLookup(m, t, n) ==
  LET m1 == AcquireLatch(m, t, n, "X")
      depth == Depth(m1, t)
      node == m1.heap[n]
      m2 == IF Size(node) - 1 >= UNDERFLOW_BOUND(m.L) THEN ReleaseLatch(m1, t, depth, "X") ELSE m1
      ski == SearchKeyIndex(node, m.th[t].key)
      found == ski[2]
      after == IF ski[1] < Size(node) THEN LeafDeleteIndex(node, ski[1]) ELSE node
      underflow == found /\ Size(after) < UNDERFLOW_BOUND(m.L)
      m3 == [m2 EXCEPT !.heap[n] = after, !.th[t].und = underflow, !.th[t].ret = found]
  IN IF ~underflow \/ ~found THEN ReleaseLatch(m3, t, depth + 1, "X") ELSE m3

(* LeafDelete that releases the leaf's latch also when the leaf underflows *)
LeafDeleteUnlatch(m, t, n) ==
  LET m1 == AcquireLatch(m, t, n, "X")
      depth == Depth(m1, t)
      node == m1.heap[n]
      m2 == IF Size(node) - 1 >= UNDERFLOW_BOUND(m.L) THEN ReleaseLatch(m1, t, depth, "X") ELSE m1
      ski == SearchKeyIndex(node, m.th[t].key)
      found == ski[2]
      after == IF found THEN LeafDeleteIndex(node, ski[1]) ELSE node
      underflow == found /\ Size(after) < UNDERFLOW_BOUND(m.L)
      m3 == [m2 EXCEPT !.heap[n] = after, !.th[t].und = underflow, !.th[t].ret = found]
  IN ReleaseLatch(m3, t, depth + 1, "X")

LeafDelete(m, t, n) ==
  LET m1 == AcquireLatch(m, t, n, "X")
      depth == Depth(m1, t)
      node == m1.heap[n]
      m2 == IF Size(node) - 1 >= UNDERFLOW_BOUND(m.L) THEN ReleaseLatch(m1, t, depth, "X") ELSE m1
      ski == SearchKeyIndex(node, m.th[t].key)
      found == ski[2]
      after == IF found THEN LeafDeleteIndex(node, ski[1]) ELSE node
      underflow == found /\ Size(after) < UNDERFLOW_BOUND(m.L)
      m3 == [m2 EXCEPT !.heap[n] = after, !.th[t].und = underflow, !.th[t].ret = found]
  IN IF ~underflow \/ ~found THEN ReleaseLatch(m3, t, depth + 1, "X") ELSE m3

(* LeafLocateKey without the two ReleaseLatch(depth, SHARE): the latches   *)
(* of the ancestors stay held                                              *)
LeafLocateKeyKeepAncestors(m, t, n) ==
  LET m1 == AcquireLatch(m, t, n, "S")
      ski == SearchKeyIndex(m1.heap[n], m.th[t].key)
  IN [m1 EXCEPT !.th[t].ret = ski[2], !.th[t].it.cur = n, !.th[t].it.off = ski[1]]

LeafLocateKey(m, t, n) ==
  LET m1 == AcquireLatch(m, t, n, "S")
      depth == Depth(m1, t)
      m2 == ReleaseLatch(m1, t, depth, "S")
      ski == SearchKeyIndex(m2.heap[n], m.th[t].key)
      m3 == [m2 EXCEPT !.th[t].ret = ski[2], !.th[t].it.cur = n, !.th[t].it.off = ski[1]]
  IN ReleaseLatch(m3, t, depth, "S")

(* LeafNode::Update.  The latch taken with lock() is released with        *)
(* ReleaseLatch(depth + 1, SHARE), that is unlock_shared(): undefined for  *)
(* a latch held exclusively (flag unlock_mode).  The latch is left held    *)
(* here; UpdateOutcomes adds the outcome in which it is released.          *)
LeafUpdate(m, t, n) ==
  LET m1 == AcquireLatch(m, t, n, "X")
      depth == Depth(m1, t)
      m2 == ReleaseLatch(m1, t, depth, "X")
      ski == SearchKeyIndex(m2.heap[n], m.th[t].key)
      m3 == IF ski[2] THEN [m2 EXCEPT !.heap[n].vals = SetAt(@, ski[1], m.th[t].val)] ELSE m2
      m4 == Check(m3, depth + 1 <= Len(m3.th[t].lat), "ReleaseLatch_upto")
  IN [Flag(m4, "unlock_mode") EXCEPT !.th[t].ret = ski[2], !.th[t].unlk = depth + 1]

(* Mutation of LeafBalance: after a borrow from the right leaf the         *)
(* boundary is the leftmost key the right leaf is left with.               *)
LeafBalanceNewLeftmost(m, l, r, boundary) ==
  LET left == m.heap[l]
      right == m.heap[r]
      bound == UNDERFLOW_BOUND(m.L)
  IN IF Size(left) < bound /\ Size(right) > bound
     THEN LET nl == LeafShiftAndInsert(left, At(right.keys, 0), At(right.vals, 0), Size(left))
              nr == LeafDeleteIndex(right, 0)
          IN <<[m EXCEPT !.heap[l] = nl, !.heap[r] = nr], LEFTMOST_KEY(nr), FALSE>>
     ELSE IF Size(left) > bound /\ Size(right) < bound
     THEN LET nr == LeafShiftAndInsert(right, At(left.keys, Size(left) - 1),
                                       At(left.vals, Size(left) - 1), 0)
              nl == LeafDeleteIndex(left, Size(left) - 1)
          IN <<[m EXCEPT !.heap[l] = nl, !.heap[r] = nr], RIGHTMOST_KEY(nl), FALSE>>
     ELSE LET nl == [left EXCEPT !.keys = left.keys \o right.keys,
                                 !.vals = left.vals \o right.vals,
                                 !.right = right.right]
          IN <<[m EXCEPT !.heap[l] = nl],
               IF Size(nl) = 0 THEN boundary ELSE RIGHTMOST_KEY(nl), TRUE>>

(* Mutation of LeafBalance: the merge leaves right_sibl_ of the left leaf   *)
(* as it was.                                                              *)
LeafBalanceKeepSibling(m, l, r, boundary) ==
  LET left == m.heap[l]
      right == m.heap[r]
      bound == UNDERFLOW_BOUND(m.L)
  IN IF Size(left) < bound /\ Size(right) > bound
     THEN LET nl == LeafShiftAndInsert(left, At(right.keys, 0), At(right.vals, 0), Size(left))
              nr == LeafDeleteIndex(right, 0)
          IN <<[m EXCEPT !.heap[l] = nl, !.heap[r] = nr], LEFTMOST_KEY(right), FALSE>>
     ELSE IF Size(left) > bound /\ Size(right) < bound
     THEN LET nr == LeafShiftAndInsert(right, At(left.keys, Size(left) - 1),
                                       At(left.vals, Size(left) - 1), 0)
              nl == LeafDeleteIndex(left, Size(left) - 1)
          IN <<[m EXCEPT !.heap[l] = nl, !.heap[r] = nr], RIGHTMOST_KEY(nl), FALSE>>
     ELSE LET nl == [left EXCEPT !.keys = left.keys \o right.keys,
                                 !.vals = left.vals \o right.vals]
          IN <<[m EXCEPT !.heap[l] = nl],
               IF Size(nl) = 0 THEN boundary ELSE RIGHTMOST_KEY(nl), TRUE>>

(* LeafNode::Balance(right, boundary): <<m', boundary', merged>> *)
LeafBalance(m, l, r, boundary) ==
  LET left == m.heap[l]
      right == m.heap[r]
      bound == UNDERFLOW_BOUND(m.L)
  IN IF Size(left) < bound /\ Size(right) > bound
     THEN LET m1 == Check(m, Size(left) = bound - 1, "LeafBalance_left_size")
              nl == LeafShiftAndInsert(left, At(right.keys, 0), At(right.vals, 0), Size(left))
              nr == LeafDeleteIndex(right, 0)
              m2 == Check(m1, ~(Size(nr) < bound), "LeafBalance_unused_underflow")
          IN <<[m2 EXCEPT !.heap[l] = nl, !.heap[r] = nr], LEFTMOST_KEY(right), FALSE>>
     ELSE IF Size(left) > bound /\ Size(right) < bound
     THEN LET m1 == Check(m, Size(right) = bound - 1, "LeafBalance_right_size")
              nr == LeafShiftAndInsert(right, At(left.keys, Size(left) - 1),
                                       At(left.vals, Size(left) - 1), 0)
              nl == LeafDeleteIndex(left, Size(left) - 1)
              m2 == Check(m1, ~(Size(nl) < bound), "LeafBalance_unused_underflow")
          IN <<[m2 EXCEPT !.heap[l] = nl, !.heap[r] = nr], RIGHTMOST_KEY(nl), FALSE>>
     ELSE LET nl == [left EXCEPT !.keys = left.keys \o right.keys,
                                 !.vals = left.vals \o right.vals,
                                 !.right = right.right]
              m1 == IF Size(nl) > m.L THEN Flag(m, "oob_leaf") ELSE m
              m2 == Check(m1, Size(nl) > 0, "RIGHTMOST_KEY_size")
              \* RIGHTMOST_KEY of an empty leaf reads keys_[-1]
              m3 == IF Size(nl) = 0 THEN Flag(m2, "read_oob") ELSE m2
          IN <<[m3 EXCEPT !.heap[l] = nl],
               IF Size(nl) = 0 THEN boundary ELSE RIGHTMOST_KEY(nl), TRUE>>

----------------------------------------------------------------------------
(* InternalNode.  A call of an internal node's Insert or Delete is a frame *)
(* of the thread: path[j] is the node of frame j, tix[j] its target_idx,   *)
(* and FrameDepth(m, t, j) the index AcquireLatch returned to it.          *)

FrameDepth(m, t, j) == m.th[t].base + j

PushFrame(m, t, n, target_idx) ==
  [m EXCEPT !.th[t].path = Append(@, n), !.th[t].tix = Append(@, target_idx),
            !.th[t].cur = At(m.heap[n].child, target_idx)]

(* Mutation of InternalInsertEnter: the latches of the ancestors are      *)
(* released also when the node is full.                                    *)
InternalInsertEnterEager(m, t, n) ==
  LET m1 == AcquireLatch(m, t, n, "X")
      depth == Depth(m1, t)
      m2 == ReleaseLatch(m1, t, depth, "X")
  IN PushFrame(m2, t, n, SearchChildIndex(m2.heap[n], m.th[t].key))

(* Insert, from AcquireLatch to the call of target->Insert *)
InternalInsertEnter(m, t, n) ==
  LET m1 == AcquireLatch(m, t, n, "X")
      depth == Depth(m1, t)
      m2 == IF Size(m1.heap[n]) < m.I THEN ReleaseLatch(m1, t, depth, "X") ELSE m1
  IN PushFrame(m2, t, n, SearchChildIndex(m2.heap[n], m.th[t].key))

InternalSplit(m, t, n) ==
  LET node == m.heap[n]
      boundary_idx == UNDERFLOW_BOUND(Size(node))
      a == NewAddr(m)
      \* InternalNode(keys, children, start_idx, right_sibling):
      \* Size = Capacity - start_idx + 1, copies [start_idx, Capacity + OVERFLOW_SIZE)
      new_sibling == [kind |-> "INTERNAL",
                      keys |-> SubSeq(node.keys, boundary_idx + 1, m.I + OVERFLOW_SIZE),
                      vals |-> <<>>,
                      child |-> SubSeq(node.child, boundary_idx + 1, m.I + OVERFLOW_SIZE),
                      right |-> 0]
      left == [node EXCEPT !.keys = Prefix(node.keys, boundary_idx),
                           !.child = Prefix(node.child, boundary_idx)]
      m1 == [Construct(m, a, new_sibling) EXCEPT !.heap[n] = left]
  IN [m1 EXCEPT !.th[t].split = [left |-> n, right |-> a, bkey |-> At(node.keys, boundary_idx - 1)],
                !.th[t].ret = TRUE]

(* InternalInsertReturn without std::swap(keys_[target_idx], split.boundary_key): *)
(* the split's boundary key becomes the separator of the new right sibling *)
InternalInsertReturnNoSwap(m, t, j) ==
  LET n == m.th[t].path[j]
      target_idx == m.th[t].tix[j]
      depth == FrameDepth(m, t, j)
      node == m.heap[n]
      split == m.th[t].split
  IN IF ~m.th[t].ret
     THEN ReleaseLatch(m, t, depth + 1, "X")
     ELSE LET insert_pos == target_idx + 1
              grown == InternalShiftAndInsert(node, split.bkey, split.right, insert_pos)
              m0 == IF Size(node) + 1 > m.I + OVERFLOW_SIZE - 1 THEN Flag(m, "oob_child") ELSE m
              m1 == IF Size(node) > m.I + OVERFLOW_SIZE - 1 THEN Flag(m0, "oob_keys") ELSE m0
              m2 == [m1 EXCEPT !.heap[n] = grown]
          IN IF Size(grown) <= m.I
             THEN SetRet(ReleaseLatchFromParent(m2, t, depth, "X"), t, FALSE)
             ELSE InternalSplit(m2, t, n)

(* Insert, from the return of target->Insert to the node's own return *)
InternalInsertReturn(m, t, j) ==
  LET n == m.th[t].path[j]
      target_idx == m.th[t].tix[j]
      depth == FrameDepth(m, t, j)
      node == m.heap[n]
      split == m.th[t].split
  IN IF ~m.th[t].ret
     THEN ReleaseLatch(m, t, depth + 1, "X")
     ELSE LET insert_pos == target_idx + 1
              swapped == [node EXCEPT !.keys = SetAt(@, target_idx, split.bkey)]
              grown == InternalShiftAndInsert(swapped, At(node.keys, target_idx),
                                              split.right, insert_pos)
              \* ShiftAndInsert moves child_[insert_pos .. Size] one slot up:
              \* it writes child_[Size + 1], and keys_[Size]
              m0 == IF Size(node) + 1 > m.I + OVERFLOW_SIZE - 1 THEN Flag(m, "oob_child") ELSE m
              m1 == IF Size(node) > m.I + OVERFLOW_SIZE - 1 THEN Flag(m0, "oob_keys") ELSE m0
              m2 == [m1 EXCEPT !.heap[n] = grown]
          IN IF Size(grown) <= m.I
             THEN SetRet(ReleaseLatchFromParent(m2, t, depth, "X"), t, FALSE)
             ELSE InternalSplit(m2, t, n)

(* InternalDeleteEnter that releases the latches of the ancestors whatever  *)
(* the size of the node                                                    *)
InternalDeleteEnterEager(m, t, n) ==
  LET m1 == AcquireLatch(m, t, n, "X")
      depth == Depth(m1, t)
      m2 == ReleaseLatch(m1, t, depth, "X")
  IN PushFrame(m2, t, n, SearchChildIndex(m2.heap[n], m.th[t].key))

(* Delete, from AcquireLatch to the call of target->Delete *)
InternalDeleteEnter(m, t, n) ==
  LET m1 == AcquireLatch(m, t, n, "X")
      depth == Depth(m1, t)
      m2 == IF Size(m1.heap[n]) - 1 >= UNDERFLOW_BOUND(m.I)
            THEN ReleaseLatch(m1, t, depth, "X") ELSE m1
  IN PushFrame(m2, t, n, SearchChildIndex(m2.heap[n], m.th[t].key))

(* Search and LocateKey: shared latch, release the ancestors, go down *)
InternalSearchEnter(m, t, n) ==
  LET m1 == AcquireLatch(m, t, n, "S")
      depth == Depth(m1, t)
      m2 == ReleaseLatch(m1, t, depth, "S")
  IN [m2 EXCEPT !.th[t].cur = At(m2.heap[n].child, SearchChildIndex(m2.heap[n], m.th[t].key))]

(* InternalNode::Update, from AcquireLatch to the call of target->Update *)
InternalUpdateEnter(m, t, n) ==
  LET m1 == AcquireLatch(m, t, n, "X")
      depth == Depth(m1, t)
      m2 == ReleaseLatch(m1, t, depth, "X")
  IN [m2 EXCEPT !.th[t].cur = At(m2.heap[n].child, SearchChildIndex(m2.heap[n], m.th[t].key))]

(* InternalNode::Balance(right, boundary): <<m', boundary', merged>> *)
InternalBalance(m, l, r, boundary) ==
  LET left == m.heap[l]
      right == m.heap[r]
      bound == UNDERFLOW_BOUND(m.I)
  IN IF Size(left) < bound /\ Size(right) > bound
     THEN LET moved == At(right.child, 0)
              \* RIGHTMOST_KEY(this->child_[Size]) reads the moved child's node
              gc == m.heap[moved]
              m1 == Check(m, Size(left) = bound - 1, "InternalBalance_left_size")
              m2 == Check(m1, Size(gc) > 0, "RIGHTMOST_KEY_size")
              m3 == IF gc.kind = "FREE" \/ Size(gc) = 0 THEN Flag(m2, "read_oob") ELSE m2
              newkey == IF Size(gc) = 0 THEN boundary ELSE RIGHTMOST_KEY(gc)
              nl == [left EXCEPT !.keys = Append(@, newkey), !.child = Append(@, moved)]
              nr == InternalDeleteIndex(right, 0)
              m4 == Check(m3, ~(Size(nr) < bound), "InternalBalance_unused_underflow")
          IN <<[m4 EXCEPT !.heap[l] = nl, !.heap[r] = nr], newkey, FALSE>>
     ELSE IF Size(left) > bound /\ Size(right) < bound
     THEN LET m1 == Check(m, Size(right) = bound - 1, "InternalBalance_right_size")
              nr == InternalShiftAndInsert(right, boundary, At(left.child, Size(left) - 1), 0)
              nl == [left EXCEPT !.keys = Prefix(@, Size(left) - 1),
                                 !.child = Prefix(@, Size(left) - 1)]
          IN <<[m1 EXCEPT !.heap[l] = nl, !.heap[r] = nr], RIGHTMOST_KEY(nl), FALSE>>
     ELSE LET \* keys_[Size] = boundary is overwritten by the copy of right's keys
              nl == [left EXCEPT !.keys = left.keys \o right.keys,
                                 !.child = left.child \o right.child]
              m1 == IF Size(nl) > m.I + OVERFLOW_SIZE \/ Size(left) >= m.I + OVERFLOW_SIZE
                    THEN Flag(m, "oob_keys") ELSE m
          IN <<[m1 EXCEPT !.heap[l] = nl], boundary, TRUE>>

Balance(m, l, r, boundary) ==
  IF m.heap[l].kind = "LEAF" THEN LeafBalance(m, l, r, boundary)
  ELSE InternalBalance(m, l, r, boundary)

(* The pair Delete rebalances: <<boundary_idx, sibl_index, left_child, right_child>> *)
BalancePair(node, target_idx) ==
  IF target_idx >= 1
  THEN <<target_idx - 1, target_idx - 1, At(node.child, target_idx - 1), At(node.child, target_idx)>>
  ELSE <<target_idx, target_idx + 1, At(node.child, target_idx), At(node.child, target_idx + 1)>>

SiblingOf(m, t, j) ==
  LET node == m.heap[m.th[t].path[j]]
  IN At(node.child, BalancePair(node, m.th[t].tix[j])[2])

(* Mutation of InternalDeleteReturn: when the child has deleted the key     *)
(* without an underflow, the node sets the child's separator to the        *)
(* child's last key.                                                       *)
InternalDeleteReturnRekey(m, t, j) ==
  LET n == m.th[t].path[j]
      depth == FrameDepth(m, t, j)
      target == At(m.heap[n].child, m.th[t].tix[j])
      m1 == IF m.th[t].ret /\ Size(m.heap[target]) > 0
            THEN [m EXCEPT !.heap[n].keys = SetAt(@, m.th[t].tix[j], RIGHTMOST_KEY(m.heap[target]))]
            ELSE m
  IN IF ~m.th[t].ret \/ ~m.th[t].und
     THEN <<ReleaseLatch(m1, t, depth + 1, "X"), "return">>
     ELSE IF Size(m.heap[n]) <= 1 THEN <<m, "return">>
     ELSE <<m, "lock">>

(* Delete, from the return of target->Delete up to sibl_latch->lock():     *)
(* "return" when the frame returns, "lock" when it must wait for the latch *)
InternalDeleteReturn(m, t, j) ==
  LET n == m.th[t].path[j]
      depth == FrameDepth(m, t, j)
  IN IF ~m.th[t].ret \/ ~m.th[t].und
     THEN <<ReleaseLatch(m, t, depth + 1, "X"), "return">>
     ELSE IF Size(m.heap[n]) <= 1 THEN <<m, "return">>
     ELSE <<m, "lock">>

(* InternalDeleteBalance that keeps the old separator after Balance has      *)
(* moved an entry between the two children                                 *)
InternalDeleteBalanceKeepKey(m, t, j) ==
  LET n == m.th[t].path[j]
      target_idx == m.th[t].tix[j]
      depth == FrameDepth(m, t, j)
      node == m.heap[n]
      target == At(node.child, target_idx)
      pair == BalancePair(node, target_idx)
      boundary_idx == pair[1]
      sibl == At(node.child, pair[2])
      left_child == pair[3]
      right_child == pair[4]
      m1 == Lock(m, t, sibl, "X")
      bal == Balance(m1, left_child, right_child, At(node.keys, boundary_idx))
      merged == bal[3]
      m2 == IF right_child = target
            THEN ReplaceLatch(Check(bal[1], At(m.th[t].lat, depth + 1) = target, "target_latch"),
                              t, depth + 1, sibl, "X")
            ELSE Unlock(bal[1], t, sibl, "X")
  IN IF ~merged
     THEN LET m3 == ReleaseLatch(m2, t, depth, "X")
              m4 == [m3 EXCEPT !.th[t].und = FALSE]
          IN SetRet(ReleaseLatchFromParent(m4, t, depth, "X"), t, TRUE)
     ELSE LET nd == m2.heap[n]
              swapped == [nd EXCEPT !.keys = SetAt(SetAt(@, boundary_idx, At(nd.keys, boundary_idx + 1)),
                                                   boundary_idx + 1, At(nd.keys, boundary_idx))]
              shrunk == InternalDeleteIndex(swapped, boundary_idx + 1)
              underflow == Size(shrunk) < UNDERFLOW_BOUND(m.I)
              m3 == FreeNodeAt([m2 EXCEPT !.heap[n] = shrunk, !.th[t].und = underflow],
                               right_child)
              m4 == IF ~underflow
                    THEN ReleaseLatchFromParent(ReleaseLatch(m3, t, depth, "X"), t, depth, "X")
                    ELSE m3
          IN SetRet(m4, t, TRUE)

(* Delete, from sibl_latch->lock() having been granted to the return *)
InternalDeleteBalance(m, t, j) ==
  LET n == m.th[t].path[j]
      target_idx == m.th[t].tix[j]
      depth == FrameDepth(m, t, j)
      node == m.heap[n]
      target == At(node.child, target_idx)
      pair == BalancePair(node, target_idx)
      boundary_idx == pair[1]
      sibl == At(node.child, pair[2])
      left_child == pair[3]
      right_child == pair[4]
      m1 == Lock(m, t, sibl, "X")
      bal == Balance(m1, left_child, right_child, At(node.keys, boundary_idx))
      boundary == bal[2]
      merged == bal[3]
      m2 == IF right_child = target
            THEN ReplaceLatch(Check(bal[1], At(m.th[t].lat, depth + 1) = target, "target_latch"),
                              t, depth + 1, sibl, "X")
            ELSE Unlock(bal[1], t, sibl, "X")
  IN IF ~merged
     THEN LET m3 == ReleaseLatch(m2, t, depth, "X")
              m4 == [m3 EXCEPT !.heap[n].keys = SetAt(@, boundary_idx, boundary),
                               !.th[t].und = FALSE]
          IN SetRet(ReleaseLatchFromParent(m4, t, depth, "X"), t, TRUE)
     ELSE LET nd == m2.heap[n]
              swapped == [nd EXCEPT !.keys = SetAt(SetAt(@, boundary_idx, At(nd.keys, boundary_idx + 1)),
                                                   boundary_idx + 1, At(nd.keys, boundary_idx))]
              shrunk == InternalDeleteIndex(swapped, boundary_idx + 1)
              underflow == Size(shrunk) < UNDERFLOW_BOUND(m.I)
              \* ClearChildArray, then delete right_child
              m3 == FreeNodeAt([m2 EXCEPT !.heap[n] = shrunk, !.th[t].und = underflow],
                               right_child)
              m4 == IF ~underflow
                    THEN ReleaseLatchFromParent(ReleaseLatch(m3, t, depth, "X"), t, depth, "X")
                    ELSE m3
          IN SetRet(m4, t, TRUE)

----------------------------------------------------------------------------
(* MemoryBTree and the steps of a thread.  A step runs from one latch      *)
(* acquisition that may wait to the next one.                              *)

OpMode(op) == IF op \in {"Insert", "Delete", "Update"} THEN "X" ELSE "S"

(* The call of a public operation, up to its AcquireLatch on tree_latch_ *)
Call(m, t, op, key, val) ==
  [m EXCEPT !.th[t] = [@ EXCEPT !.pc = "tree", !.op = op, !.key = key, !.val = val,
                                !.base = Len(m.th[t].lat), !.path = <<>>, !.tix = <<>>,
                                !.cur = 0, !.fr = 0, !.split = NoSplit, !.und = FALSE,
                                !.ret = FALSE, !.rkey = 0, !.rval = 0, !.err = FALSE]]

(* The return of a public operation to its caller *)
Return(m, t) ==
  [m EXCEPT !.th[t] = [@ EXCEPT !.pc = "idle", !.path = <<>>, !.tix = <<>>, !.cur = 0,
                                !.fr = 0, !.split = NoSplit, !.und = FALSE, !.base = 0,
                                !.key = 0, !.val = 0]]

(* context->AcquireLatch(LatchPtr(), mode); this->root_-> ... *)
TreeEnter(m, t) ==
  LET m1 == AcquireLatch(m, t, TreeLatch, OpMode(m.th[t].op))
  IN [m1 EXCEPT !.th[t].pc = "node", !.th[t].cur = m.root]

(* MemoryBTree::Insert after root_->Insert has returned *)
TreeInsertReturn(m, t) ==
  IF m.th[t].ret THEN [m EXCEPT !.th[t].pc = "post"]
  ELSE Return(ContextClear(m, t), t)

(* the root split of MemoryBTree::Insert: this->root_.release() *)
TreeInsertRelease(m, t) ==
  [m EXCEPT !.root = 0, !.th[t].pc = "inst"]

(* Mutation of TreeInsertSplit: the new root takes the children of an       *)
(* internal right half as its own children, in place of the right half.    *)
TreeInsertSplitAdopt(m, t) ==
  LET split == m.th[t].split
      a == NewAddr(m)
      r == m.heap[split.right]
      new_root == IF r.kind = "INTERNAL"
                  THEN [kind |-> "INTERNAL", keys |-> <<split.bkey>> \o r.keys,
                        vals |-> <<>>, child |-> <<split.left>> \o r.child, right |-> 0]
                  ELSE [kind |-> "INTERNAL", keys |-> <<split.bkey, RIGHTMOST_KEY(r)>>,
                        vals |-> <<>>, child |-> <<split.left, split.right>>, right |-> 0]
      m1 == [Construct(m, a, new_root) EXCEPT !.root = a]
      m2 == ReleaseLatchFromParent(m1, t, 0, "X")
  IN Return(ContextClear(m2, t), t)

(* the root split of MemoryBTree::Insert: root_ = a new InternalNode(split) *)
TreeInsertSplit(m, t) ==
  LET split == m.th[t].split
      a == NewAddr(m)
      r == m.heap[split.right]
      new_root == [kind |-> "INTERNAL", keys |-> <<split.bkey, RIGHTMOST_KEY(r)>>,
                   vals |-> <<>>, child |-> <<split.left, split.right>>, right |-> 0]
      m1 == [Construct(m, a, new_root) EXCEPT !.root = a]
      m2 == ReleaseLatchFromParent(m1, t, 0, "X")
  IN Return(ContextClear(m2, t), t)

(* MemoryBTree::Delete after root_->Delete has returned *)
TreeDeleteReturn(m, t) ==
  IF ~m.th[t].ret THEN Return(m, t)
  ELSE [m EXCEPT !.th[t].pc = "post"]

(* the root inspection of MemoryBTree::Delete: the load of this->root_,    *)
(* with no latch when the call has released its own.  A null root_ (an     *)
(* Insert is between its release() and its assignment) is dereferenced.    *)
TreeDeleteLoadRoot(m, t) ==
  IF m.root = 0 THEN Flag([m EXCEPT !.th[t].pc = "corrupt"], "null_root")
  ELSE [m EXCEPT !.th[t].cur = m.root, !.th[t].pc = "insp"]

(* the root inspection and collapse of MemoryBTree::Delete: Type() and     *)
(* Size() of the node loaded, then release(), reset() and delete on root_ *)
TreeDeleteCollapse(m, t) ==
  LET r == m.heap[m.th[t].cur]
      m0 == IF r.kind = "FREE" THEN Flag(m, "read_freed") ELSE m
      collapse == r.kind = "INTERNAL" /\ Size(r) = 1
      old_root == m.root
  IN IF collapse /\ (old_root = 0 \/ m.heap[old_root].kind # "INTERNAL")
     THEN Flag([m0 EXCEPT !.th[t].pc = "corrupt"],
               IF old_root = 0 THEN "null_root" ELSE "cast_root")
     ELSE LET m1 == IF collapse
                    THEN FreeNodeAt([Check(m0, m.th[t].und, "collapse_underflow")
                                       EXCEPT !.root = At(m.heap[old_root].child, 0)], old_root)
                    ELSE m0
              m2 == IF m.th[t].und THEN ReleaseLatchFromParent(m1, t, 0, "X") ELSE m1
          IN Return(ContextClear(m2, t), t)

RECURSIVE InsertUnwind(_, _, _)
InsertUnwind(m, t, j) ==
  IF j = 0 THEN TreeInsertReturn(m, t)
  ELSE InsertUnwind(InternalInsertReturn(m, t, j), t, j - 1)

RECURSIVE DeleteUnwind(_, _, _)
DeleteUnwind(m, t, j) ==
  IF j = 0 THEN TreeDeleteReturn(m, t)
  ELSE LET r == InternalDeleteReturn(m, t, j)
       IN IF r[2] = "return" THEN DeleteUnwind(r[1], t, j - 1)
          ELSE [r[1] EXCEPT !.th[t].pc = "sibl", !.th[t].fr = j]

(* Mutation of TreeScanEnter: the descent takes the last child *)
TreeScanEnterLastChild(m, t, n) ==
  LET m1 == AcquireLatch(m, t, n, "S")
      depth == Depth(m1, t)
      m2 == IF depth > m.th[t].base + 1 THEN ReleaseLatch(m1, t, depth, "S") ELSE m1
  IN IF m.heap[n].kind = "INTERNAL"
     THEN [m2 EXCEPT !.th[t].cur = At(m.heap[n].child, Size(m.heap[n]) - 1)]
     ELSE Return([m2 EXCEPT !.th[t].it =
                     [cur |-> n, off |-> 0, hi |-> 0, bounded |-> FALSE, live |-> TRUE,
                      lo |-> 0, out |-> <<>>, past |-> FALSE]], t)

(* MemoryBTree::TreeScan at node n: the latch of n, then GetChild(0) *)
TreeScanEnter(m, t, n) ==
  LET m1 == AcquireLatch(m, t, n, "S")
      depth == Depth(m1, t)
      \* the root's latch is taken outside the loop, with no release
      m2 == IF depth > m.th[t].base + 1 THEN ReleaseLatch(m1, t, depth, "S") ELSE m1
  IN IF m.heap[n].kind = "INTERNAL"
     THEN [m2 EXCEPT !.th[t].cur = At(m.heap[n].child, 0)]
     ELSE Return([m2 EXCEPT !.th[t].it =
                     [cur |-> n, off |-> 0, hi |-> 0, bounded |-> FALSE, live |-> TRUE,
                      lo |-> 0, out |-> <<>>, past |-> FALSE]], t)

(* MemoryBTree::RangeQuery after root_->LocateKey has returned *)
RangeQueryReturn(m, t) ==
  LET m1 == Check(m, m.th[t].unlk = Len(m.th[t].lat) - 1, "RangeQuery_unlk")
  IN Return([m1 EXCEPT !.th[t].it =
                [@ EXCEPT !.hi = m.th[t].val, !.bounded = TRUE, !.live = TRUE,
                          !.lo = m.th[t].key, !.out = <<>>,
                          !.past = m.th[t].it.off >= Size(m.heap[m.th[t].it.cur])]], t)

(* The step of thread t that starts with the latch of node th[t].cur *)
NodeStep(m, t) ==
  LET n == m.th[t].cur
      op == m.th[t].op
      internal == m.heap[n].kind = "INTERNAL"
  IN IF m.heap[n].kind = "FREE"
     THEN [Lock(m, t, n, OpMode(op)) EXCEPT !.th[t].pc = "corrupt"]
     ELSE IF op = "Insert"
     THEN IF internal THEN InternalInsertEnter(m, t, n)
          ELSE InsertUnwind(LeafInsert(m, t, n), t, Len(m.th[t].path))
     ELSE IF op = "Delete"
     THEN IF internal THEN InternalDeleteEnter(m, t, n)
          ELSE DeleteUnwind(LeafDelete(m, t, n), t, Len(m.th[t].path))
     ELSE IF op = "Search"
     THEN IF internal THEN InternalSearchEnter(m, t, n)
          ELSE Return(ContextClear(LeafSearch(m, t, n), t), t)
     ELSE IF op = "Update"
     THEN IF internal THEN InternalUpdateEnter(m, t, n)
          ELSE Return(LeafUpdate(m, t, n), t)
     ELSE IF op = "RangeQuery"
     THEN IF internal THEN InternalSearchEnter(m, t, n)
          ELSE RangeQueryReturn(LeafLocateKey(m, t, n), t)
     ELSE TreeScanEnter(m, t, n)

(* The step that starts with sibl_latch->lock() in frame th[t].fr *)
SiblStep(m, t) ==
  DeleteUnwind(InternalDeleteBalance(m, t, m.th[t].fr), t, m.th[t].fr - 1)

(* The steps of a public operation after root_-> ... has returned *)
PostStep(m, t) ==
  IF m.th[t].op = "Insert" THEN TreeInsertRelease(m, t) ELSE TreeDeleteLoadRoot(m, t)

(* The latch thread t waits for, and the mode *)
Wanted(m, t) ==
  IF m.th[t].pc = "tree" THEN <<TreeLatch, OpMode(m.th[t].op)>>
  ELSE IF m.th[t].pc = "node" THEN <<m.th[t].cur, OpMode(m.th[t].op)>>
  ELSE IF m.th[t].pc = "sibl" THEN <<SiblingOf(m, t, m.th[t].fr), "X">>
  ELSE <<TreeLatch, "NONE">>

CanStep(m, t) ==
  /\ m.th[t].pc \in {"tree", "node", "sibl", "post", "inst", "insp"}
  /\ CanLock(m, t, Wanted(m, t)[1], Wanted(m, t)[2])

(* A store outside the arrays of a node, or the unlock of a latch the       *)
(* thread does not hold, damages memory the model does not describe: the   *)
(* call goes on to its return with the outcome the arrays and latches of   *)
(* the model give it, and the thread makes no further call (dead).         *)
Fatal == {"oob_keys", "oob_leaf", "unlock_unheld"}

Settle(m, t) ==
  IF m.ub \cap Fatal # {} THEN [m EXCEPT !.th[t].dead = TRUE] ELSE m

Step(m, t) ==
  Settle(IF m.th[t].pc = "tree" THEN TreeEnter(m, t)
         ELSE IF m.th[t].pc = "node" THEN NodeStep(m, t)
         ELSE IF m.th[t].pc = "sibl" THEN SiblStep(m, t)
         ELSE IF m.th[t].pc = "post" THEN PostStep(m, t)
         ELSE IF m.th[t].pc = "inst" THEN TreeInsertSplit(m, t)
         ELSE TreeDeleteCollapse(m, t), t)

(* Mutation of IteratorNext: offset_ is not reset when the iterator moves   *)
(* to the right sibling.                                                   *)
RECURSIVE IteratorNextKeepOffset(_, _)
IteratorNextKeepOffset(m, t) ==
  LET it == m.th[t].it
  IN IF it.cur = 0 THEN [m EXCEPT !.th[t].ret = FALSE]
     ELSE LET node == m.heap[it.cur]
          IN IF it.off >= 0 /\ it.off < Size(node)
             THEN LET key == At(node.keys, it.off)
                      ok == ~it.bounded \/ key <= it.hi
                  IN [m EXCEPT !.th[t].rkey = key, !.th[t].rval = At(node.vals, it.off),
                               !.th[t].ret = ok, !.th[t].it.off = it.off + 1,
                               !.th[t].it.out = IF ok THEN Append(@, <<key, At(node.vals, it.off)>>)
                                                ELSE @]
             ELSE LET right_sibl == node.right
                  IN IF right_sibl # 0 /\ ~CanLock(m, t, right_sibl, "S")
                     THEN [m EXCEPT !.th[t].err = TRUE, !.th[t].ret = FALSE]
                     ELSE IF right_sibl # 0
                     THEN LET m2 == AcquireLatch(Lock(m, t, right_sibl, "S"), t, right_sibl, "NONE")
                              m3 == ReleaseLatch(m2, t, Depth(m2, t), "S")
                          IN IteratorNextKeepOffset([m3 EXCEPT !.th[t].it.cur = right_sibl], t)
                     ELSE [m EXCEPT !.th[t].it.cur = 0, !.th[t].ret = FALSE]

(* Mutation of IteratorNext: the iterator moves to the right sibling       *)
(* without try_lock_shared on its latch, and releases the leaf it leaves.  *)
RECURSIVE IteratorNextUnlatched(_, _)
IteratorNextUnlatched(m, t) ==
  LET it == m.th[t].it
  IN IF it.cur = 0 THEN [m EXCEPT !.th[t].ret = FALSE]
     ELSE LET node == m.heap[it.cur]
          IN IF it.off >= 0 /\ it.off < Size(node)
             THEN LET key == At(node.keys, it.off)
                      ok == ~it.bounded \/ key <= it.hi
                  IN [m EXCEPT !.th[t].rkey = key, !.th[t].rval = At(node.vals, it.off),
                               !.th[t].ret = ok, !.th[t].it.off = it.off + 1,
                               !.th[t].it.out = IF ok THEN Append(@, <<key, At(node.vals, it.off)>>)
                                                ELSE @]
             ELSE LET right_sibl == node.right
                      m1 == [m EXCEPT !.th[t].it.off = 0]
                  IN IF right_sibl # 0
                     THEN LET m3 == ReleaseLatch(m1, t, Depth(m1, t) + 1, "S")
                          IN IteratorNextUnlatched([m3 EXCEPT !.th[t].it.cur = right_sibl], t)
                     ELSE IteratorNextUnlatched([m1 EXCEPT !.th[t].it.cur = 0], t)

(* MemoryIterator::Next *)
RECURSIVE IteratorNext(_, _)
IteratorNext(m, t) ==
  LET it == m.th[t].it
  IN IF it.cur = 0 THEN [m EXCEPT !.th[t].ret = FALSE]
     ELSE LET node == m.heap[it.cur]
          IN IF it.off >= 0 /\ it.off < Size(node)
             THEN LET key == At(node.keys, it.off)
                      ok == ~it.bounded \/ key <= it.hi
                  IN [m EXCEPT !.th[t].rkey = key, !.th[t].rval = At(node.vals, it.off),
                               !.th[t].ret = ok, !.th[t].it.off = it.off + 1,
                               !.th[t].it.out = IF ok THEN Append(@, <<key, At(node.vals, it.off)>>)
                                                ELSE @]
             ELSE LET right_sibl == node.right
                      m1 == [m EXCEPT !.th[t].it.off = 0]
                  IN IF right_sibl # 0 /\ ~CanLock(m, t, right_sibl, "S")
                     THEN [m1 EXCEPT !.th[t].err = TRUE, !.th[t].ret = FALSE]
                     ELSE IF right_sibl # 0
                     THEN LET m2 == AcquireLatch(Lock(m1, t, right_sibl, "S"), t, right_sibl, "NONE")
                              m3 == ReleaseLatch(m2, t, Depth(m2, t), "S")
                          IN IteratorNext([m3 EXCEPT !.th[t].it.cur = right_sibl], t)
                     ELSE IteratorNext([m1 EXCEPT !.th[t].it.cur = 0], t)

----------------------------------------------------------------------------
(* The state of the program as a machine record, and back *)

Machine ==
  [heap |-> heap, root |-> root, latch |-> latch, th |-> th, ub |-> {}, af |-> {},
   L |-> caps.L, I |-> caps.I]

(* operator new may return any free address.  States are kept up to the    *)
(* renaming of addresses: the nodes reachable from the root come first, in *)
(* preorder, then the other allocated nodes, then the freed nodes that a   *)
(* thread or a held latch still refers to, then the free addresses.        *)
RECURSIVE Preorder(_, _, _)
Preorder(m, n, fuel) ==
  IF fuel = 0 \/ n = 0 \/ m.heap[n].kind = "FREE" THEN <<>>
  ELSE LET RECURSIVE Kids(_)
           Kids(i) == IF i > Len(m.heap[n].child) THEN <<>>
                      ELSE Preorder(m, m.heap[n].child[i], fuel - 1) \o Kids(i + 1)
       IN <<n>> \o Kids(1)

RECURSIVE Ascending(_)
Ascending(S) ==
  IF S = {} THEN <<>>
  ELSE LET x == CHOOSE y \in S : \A z \in S : y <= z
       IN <<x>> \o Ascending(S \ {x})

RECURSIVE Distinct(_, _)
Distinct(s, seen) ==
  IF s = <<>> THEN <<>>
  ELSE IF Head(s) \in seen THEN Distinct(Tail(s), seen)
  ELSE <<Head(s)>> \o Distinct(Tail(s), seen \cup {Head(s)})

Range(s) == {s[i] : i \in 1..Len(s)}

ThreadRefs(r) ==
  (Range(r.lat) \cup Range(r.path) \cup {r.cur, r.split.left, r.split.right, r.it.cur}) \ {0}

Renaming(m) ==
  LET reach == Distinct(Preorder(m, m.root, MaxNodes), {})
      alloc == {a \in NodeIds : m.heap[a].kind # "FREE"} \ Range(reach)
      refs == UNION {ThreadRefs(m.th[t]) : t \in DOMAIN m.th}
                \cup {a \in NodeIds : m.latch[a] # FreeLatch}
      dangling == (refs \ Range(reach)) \ alloc
      free == ((NodeIds \ Range(reach)) \ alloc) \ dangling
      order == reach \o Ascending(alloc) \o Ascending(dangling) \o Ascending(free)
  IN [a \in LatchIds |-> IF a = 0 THEN 0 ELSE CHOOSE i \in NodeIds : order[i] = a]

RenameSeq(s, f) == [i \in 1..Len(s) |-> f[s[i]]]

RenamedBy(m, f, g) ==
     [m EXCEPT
        !.heap = [b \in NodeIds |->
                    [m.heap[g[b]] EXCEPT !.child = RenameSeq(@, f), !.right = f[@]]],
        !.root = f[m.root],
        !.latch = [b \in LatchIds |-> IF b = 0 THEN m.latch[0] ELSE m.latch[g[b]]],
        !.th = [t \in DOMAIN m.th |->
                  [m.th[t] EXCEPT !.lat = RenameSeq(@, f), !.path = RenameSeq(@, f),
                                  !.cur = f[@], !.split.left = f[@], !.split.right = f[@],
                                  !.it.cur = f[@]]]]

Renamed(m) ==
  LET f == Renaming(m)
  IN IF \A a \in NodeIds : f[a] = a THEN m
     ELSE RenamedBy(m, f, [b \in NodeIds |-> CHOOSE a \in NodeIds : f[a] = b])

Commit(m0) ==
  \E m \in {Renamed(m0)} :
     /\ heap' = m.heap
     /\ root' = m.root
     /\ latch' = m.latch
     /\ th' = m.th
     /\ ub' = m.ub
     /\ af' = m.af
     /\ caps' = caps

(* A public operation run by one thread with no other thread moving:       *)
(* the machine when the thread has returned, or where it waits for ever.   *)
RECURSIVE Run(_, _)
Run(m, t) == IF CanStep(m, t) THEN Run(Step(m, t), t) ELSE m

(* MemoryBTree(): the root is an empty leaf *)
InitHeap == [a \in NodeIds |-> IF a = 1 THEN EmptyLeaf ELSE FreeNode]

InitWith(ts) ==
  /\ heap = InitHeap
  /\ root = 1
  /\ latch = [l \in LatchIds |-> FreeLatch]
  /\ th = [t \in ts |-> IdleThread]
  /\ ub = {}
  /\ af = {}
  /\ caps \in [L : 2..MaxLeafCap, I : 2..MaxIntCap]
  /\ gmap = [k \in Keys |-> 0]

(* The caller may start an operation with a context that is idle, is not   *)
(* serving an iterator, and holds at most MaxStale old entries.            *)
ScanOps == {"RangeQuery", "TreeScan", "Next"}

MayCall(t) ==
  /\ th[t].pc = "idle"
  /\ ~th[t].dead
  /\ th[t].op \notin ScanOps
  /\ Len(th[t].lat) <= MaxStale

(* The levels of the tree on its leftmost path *)
RECURSIVE Height(_, _, _)
Height(h, n, fuel) ==
  IF fuel = 0 \/ n = 0 \/ h[n].kind # "INTERNAL" \/ Size(h[n]) = 0 THEN 1
  ELSE 1 + Height(h, At(h[n].child, 0), fuel - 1)

(* An Insert splits at most one node a level and then the root, and every  *)
(* writer in progress may do so: Inserts are called while the heap of the  *)
(* model has that many free addresses.                                     *)
MayAllocate ==
  FreeCount(Machine) >= Cardinality(DOMAIN th) * (Height(heap, root, MaxNodes) + 1)

(* Thread t calls a public operation; pre records, for the properties,     *)
(* the value the completed writes had given the key when the call began.   *)
CallOf(t, op, key, val) ==
  Call([Machine EXCEPT !.th[t].pre = IF key \in Keys THEN gmap[key] ELSE 0], t, op, key, val)

(* The process ends inside thread t's step: every thread stops where it  *)
(* is, inside its call (aborted) or between two calls (ended).            *)
Aborted(t, m) ==
  [Machine EXCEPT !.th = [u \in DOMAIN th |->
                            [th[u] EXCEPT !.pc = IF u # t /\ @ = "idle" THEN "ended"
                                                 ELSE "aborted",
                                          !.op = IF u = t THEN m.th[t].op ELSE @,
                                          !.pre = IF u = t THEN m.th[t].pre ELSE @]],
                  !.af = m.af, !.ub = m.ub]

(* The dereference of a null root_, or of a leaf taken for an InternalNode *)
Crash == {"null_root", "cast_root"}

(* assert(): a build without NDEBUG aborts the process at a false          *)
(* condition, a build with NDEBUG goes on; both builds are outcomes.  A    *)
(* read of a deleted node ends the process or goes on with what the        *)
(* memory holds; a dereference in Crash ends the process.                  *)
Outcomes(t, m) ==
  IF m.ub \cap Crash # {} THEN {Aborted(t, m)}
  ELSE IF m.af # {} \/ "read_freed" \in m.ub THEN {m, Aborted(t, m)}
  ELSE {m}

(* The completed writes, after thread t's call has led to machine m *)
Written(t, m, k, v) ==
  IF m.th[t].pc = "idle" THEN [gmap EXCEPT ![k] = v] ELSE gmap

----------------------------------------------------------------------------
(* Specification Spec: one thread calls Insert, Delete and Search one      *)
(* after the other; every action is a whole call.                          *)

Insert(k, v) ==
  /\ MayCall(1)
  /\ MayAllocate
  /\ \E m \in Outcomes(1, Run(CallOf(1, "Insert", k, v), 1)) :
        Commit(m) /\ gmap' = Written(1, m, k, v)

Delete(k) ==
  /\ MayCall(1)
  /\ \E m \in Outcomes(1, Run(CallOf(1, "Delete", k, 0), 1)) :
        Commit(m) /\ gmap' = Written(1, m, k, 0)

Search(k) ==
  /\ MayCall(1)
  /\ \E m \in Outcomes(1, Run(CallOf(1, "Search", k, 0), 1)) :
        Commit(m) /\ gmap' = gmap

(* The caller goes on with a new QueryContext *)
NewContextOf(t) ==
  /\ th[t].pc = "idle"
  /\ ~th[t].dead
  /\ th[t].op \notin ScanOps
  /\ th[t].lat # <<>>
  /\ Commit([Machine EXCEPT !.th[t] = IdleThread])
  /\ gmap' = gmap

Init == InitWith({1})

Next ==
  \/ \E k \in Keys : \E v \in ValsOf(k) : Insert(k, v)
  \/ \E k \in Keys : Delete(k)
  \/ \E k \in Keys : Search(k)
  \/ NewContextOf(1)

Spec == Init /\ [][Next]_vars

----------------------------------------------------------------------------
(* Specification SpecScan: one thread builds a tree over the keys          *)
(* 1..MaxScanKey with Insert and Delete, then scans it.                    *)

ScanKeys == 1..MaxScanKey

RangeQuery(lo, hi) ==
  /\ MayCall(1)
  /\ \E m \in Outcomes(1, Run(CallOf(1, "RangeQuery", lo, hi), 1)) :
        Commit(m) /\ gmap' = gmap

TreeScan ==
  /\ MayCall(1)
  /\ \E m \in Outcomes(1, Run(CallOf(1, "TreeScan", 0, 0), 1)) :
        Commit(m) /\ gmap' = gmap

(* it->Next(key, value); the caller stops at the first false *)
NextOf(t) ==
  /\ th[t].pc = "idle"
  /\ th[t].it.live
  /\ \E m \in {IteratorNext([Machine EXCEPT !.th[t].op = "Next", !.th[t].err = FALSE,
                                            !.th[t].rkey = 0, !.th[t].rval = 0], t)} :
        Commit([m EXCEPT !.th[t].it.live = m.th[t].ret \/ m.th[t].err])
  /\ gmap' = gmap

NextScan ==
  \/ \E k \in ScanKeys : Insert(k, 1)
  \/ \E k \in ScanKeys : Delete(k)
  \/ \E lo \in ScanKeys, hi \in ScanKeys : RangeQuery(lo, hi)
  \/ TreeScan
  \/ NextOf(1)
  \/ NewContextOf(1)

SpecScan == Init /\ [][NextScan]_vars

----------------------------------------------------------------------------
(* The workers of src/test/concurrency/tree.cpp: every thread has its own  *)
(* QueryContext, calls one operation after the other and clears its        *)
(* context after each.  An action is one step of one thread: a call, or    *)
(* the code from one latch acquisition that may wait up to the next.       *)

Writes == {"Insert", "Delete"}

(* Thread u is inside a call that writes key k *)
Writing(u, k) == th[u].pc # "idle" /\ th[u].op \in Writes /\ th[u].key = k

(* Thread u is inside a call on key k *)
Using(u, k) == th[u].pc # "idle" /\ th[u].key = k

(* The call of op by worker t.  As in the tests, no two workers write the   *)
(* same key at the same time.  clean records, for the properties, that no  *)
(* other thread writes the key while the call is in progress; calls counts *)
(* the worker's calls, up to MaxCalls.                                     *)
WorkerCall(t, op, k, v) ==
  /\ th[t].pc = "idle"
  /\ ~th[t].dead
  /\ th[t].calls < MaxCalls
  /\ op = "Insert" => MayAllocate
  /\ op \in Writes => \A w \in DOMAIN th \ {t} : ~Writing(w, k)
  /\ \E m \in {Call(ContextClear(Machine, t), t, op, k, v)} :
        Commit([m EXCEPT !.th = [u \in DOMAIN th |->
                   IF u = t
                   THEN [m.th[t] EXCEPT !.pre = gmap[k], !.calls = @ + 1,
                                        !.clean = \A w \in DOMAIN th \ {t} : ~Writing(w, k)]
                   ELSE IF op \in Writes /\ Using(u, k)
                   THEN [m.th[u] EXCEPT !.clean = FALSE]
                   ELSE m.th[u]]])
  /\ gmap' = gmap

(* The completed writes after a step of thread t has led to machine m *)
WrittenBy(t, m) ==
  IF m.th[t].pc # "idle" THEN gmap
  ELSE IF th[t].op = "Insert" THEN [gmap EXCEPT ![th[t].key] = th[t].val]
  ELSE IF th[t].op = "Delete" /\ m.th[t].ret THEN [gmap EXCEPT ![th[t].key] = 0]
  ELSE gmap

WorkerStep(t, pc) ==
  /\ th[t].pc = pc
  /\ CanStep(Machine, t)
  /\ \E m \in Outcomes(t, Step(Machine, t)) : Commit(m) /\ gmap' = WrittenBy(t, m)

(* context->AcquireLatch(LatchPtr(), ...) of a public operation *)
EnterTree(t) == WorkerStep(t, "tree")

(* the latch of the next node on the way down, and the code that follows *)
EnterNode(t) == WorkerStep(t, "node")

(* sibl_latch->lock() of InternalNode::Delete, and the code that follows *)
LockSibling(t) == WorkerStep(t, "sibl")

(* root_.release() of Insert, the load of root_ of Delete *)
TreePost(t) == WorkerStep(t, "post")

(* root_ = std::make_unique<InternalNode>(split) of Insert, to its return *)
RootInstall(t) == WorkerStep(t, "inst")

(* the inspection and collapse of the root of Delete, to its return *)
RootInspect(t) == WorkerStep(t, "insp")

(* A tree the workers start on: the keys of seq inserted one after the     *)
(* other, each with value 1, by the code of Insert.                        *)
EmptyTree(ts, c) ==
  [heap |-> InitHeap, root |-> 1, latch |-> [l \in LatchIds |-> FreeLatch],
   th |-> [t \in ts |-> IdleThread], ub |-> {}, af |-> {}, L |-> c.L, I |-> c.I]

RECURSIVE Loaded(_, _)
Loaded(m, seq) ==
  IF seq = <<>> THEN m
  ELSE Loaded([Run(Call(m, 1, "Insert", Head(seq), 1), 1)
                 EXCEPT !.th[1] = IdleThread, !.ub = {}, !.af = {}], Tail(seq))

InitLoaded(ts, cs, seqs) ==
  \E c \in cs : \E seq \in seqs : \E m \in {Renamed(Loaded(EmptyTree(ts, c), seq))} :
    /\ heap = m.heap
    /\ root = m.root
    /\ latch = m.latch
    /\ th = m.th
    /\ ub = {}
    /\ af = {}
    /\ caps = c
    /\ gmap = [k \in Keys |-> IF k \in Range(seq) THEN 1 ELSE 0]

WorkerCaps == {[L |-> 2, I |-> 3]}

AllIdle == \A t \in DOMAIN th : th[t].pc = "idle"

WorkersDone == AllIdle /\ \A t \in DOMAIN th : th[t].calls = MaxCalls \/ th[t].dead

----------------------------------------------------------------------------
(* Specification SpecInsertSearch: two workers call Insert and Search *)

InitInsertSearch == InitLoaded(Threads, WorkerCaps, {<<>>, <<1, 2, 4>>})

NextInsertSearch ==
  \E t \in Threads :
    \/ \E k \in Keys : WorkerCall(t, "Insert", k, 1)
    \/ \E k \in Keys : WorkerCall(t, "Search", k, 0)
    \/ EnterTree(t)
    \/ EnterNode(t)
    \/ TreePost(t)
    \/ RootInstall(t)

SpecInsertSearch == InitInsertSearch /\ [][NextInsertSearch]_vars

----------------------------------------------------------------------------
(* Specification SpecDeleteSearch: on a tree that holds every key, two     *)
(* workers call Delete, each key at most once, and Search.                 *)

AllKeys == [i \in 1..MaxKey |-> i]

InitDeleteSearch == InitLoaded(Threads, WorkerCaps, {AllKeys})

NextDeleteSearch ==
  \E t \in Threads :
    \/ \E k \in Keys : gmap[k] # 0 /\ WorkerCall(t, "Delete", k, 0)
    \/ \E k \in Keys : WorkerCall(t, "Search", k, 0)
    \/ EnterTree(t)
    \/ EnterNode(t)
    \/ LockSibling(t)
    \/ TreePost(t)
    \/ RootInspect(t)

SpecDeleteSearch == InitDeleteSearch /\ [][NextDeleteSearch]_vars

----------------------------------------------------------------------------
(* Specification SpecWorkers: two workers call Insert and Delete, up to    *)
(* MaxWrites calls each, while a third calls Search.  A thread that waits  *)
(* for a latch gets it when the latch stays free, and a thread that can    *)
(* run does run: weak fairness of every thread's steps.                    *)

Readers == {3}

Workers == Threads \cup Readers

InitWorkers == InitLoaded(Workers, WorkerCaps, {<<>>, <<1, 2, 4>>, AllKeys})

WorkerRuns(t) ==
  \/ EnterTree(t)
  \/ EnterNode(t)
  \/ LockSibling(t)
  \/ TreePost(t)
  \/ RootInstall(t)
  \/ RootInspect(t)

NextWorkers ==
  \E t \in Workers :
    \/ \E k \in Keys : t \in Threads /\ th[t].calls < MaxWrites /\ WorkerCall(t, "Insert", k, 1)
    \/ \E k \in Keys : t \in Threads /\ th[t].calls < MaxWrites /\ WorkerCall(t, "Delete", k, 0)
    \/ \E k \in Keys : t \in Readers /\ WorkerCall(t, "Search", k, 0)
    \/ EnterTree(t)
    \/ EnterNode(t)
    \/ LockSibling(t)
    \/ TreePost(t)
    \/ RootInstall(t)
    \/ RootInspect(t)

SpecWorkers ==
  InitWorkers /\ [][NextWorkers]_vars /\ \A t \in Workers : WF_vars(WorkerRuns(t))

----------------------------------------------------------------------------
(* The descent of Search from node n, with no latches: <<found, value>> *)
RECURSIVE SearchFrom(_, _, _, _)
SearchFrom(h, n, key, fuel) ==
  IF fuel = 0 \/ n = 0 \/ h[n].kind = "FREE" THEN <<FALSE, 0>>
  ELSE IF h[n].kind = "INTERNAL"
  THEN IF Size(h[n]) = 0 THEN <<FALSE, 0>>
       ELSE SearchFrom(h, At(h[n].child, SearchChildIndex(h[n], key)), key, fuel - 1)
  ELSE LET ski == SearchKeyIndex(h[n], key)
       IN IF ski[2] THEN <<TRUE, At(h[n].vals, ski[1])>> ELSE <<FALSE, 0>>

Found(k) == SearchFrom(heap, root, k, MaxNodes)

Returned(t, op) == th[t].pc = "idle" /\ th[t].op = op

(* C1: one thread's completed Inserts and Deletes leave a tree in which     *)
(* Search finds exactly the keys inserted and not deleted since, each with  *)
(* the value of its latest Insert; a returned Search reports just that, and *)
(* a returned Delete reports true exactly when the key was present.         *)
C1_SequentialMap ==
  /\ \A k \in Keys : Found(k) = <<gmap[k] # 0, gmap[k]>>
  /\ Returned(1, "Search") =>
        /\ th[1].ret = (th[1].pre # 0)
        /\ th[1].ret => th[1].rval = th[1].pre
  /\ Returned(1, "Delete") => th[1].ret = (th[1].pre # 0)

(* The entries of the completed writes with keys in lo..hi, ascending *)
RECURSIVE Entries(_, _)
Entries(lo, hi) ==
  IF lo > hi THEN <<>>
  ELSE IF gmap[lo] # 0 THEN <<<<lo, gmap[lo]>>>> \o Entries(lo + 1, hi)
  ELSE Entries(lo + 1, hi)

IsPrefix(s, u) == Len(s) <= Len(u) /\ s = SubSeq(u, 1, Len(s))

(* The scan of thread t: its iterator came from TreeScan (full) or from    *)
(* RangeQuery, and its Next calls have or have not yet returned false.     *)
Scanning(t, full) ==
  /\ th[t].pc = "idle"
  /\ th[t].op \in {IF full THEN "TreeScan" ELSE "RangeQuery", "Next"}
  /\ th[t].it.bounded = ~full
  /\ th[t].it.lo # 0 \/ full

ScanEnded(t, full) == Scanning(t, full) /\ th[t].op = "Next" /\ ~th[t].it.live

C7_RangeQueryYieldsRange ==
  /\ th[1].op = "RangeQuery" => th[1].pc = "idle" /\ th[1].it.live
  /\ Scanning(1, FALSE) =>
        /\ ~th[1].err
        /\ IsPrefix(th[1].it.out, Entries(th[1].it.lo, th[1].it.hi))
  /\ ScanEnded(1, FALSE) =>
        th[1].it.out = Entries(th[1].it.lo, th[1].it.hi) /\ ~th[1].ret

(* A call of op by the single thread of Spec has just ended *)
Called(op) == th[1].pc = "idle" /\ ~th[1].dead /\ th'[1].op = op

SameShape ==
  /\ root' = root
  /\ \A a \in NodeIds :
        /\ heap'[a].kind = heap[a].kind
        /\ Len(heap'[a].vals) = Len(heap[a].vals)
        /\ heap'[a].keys = heap[a].keys
        /\ heap'[a].child = heap[a].child
        /\ heap'[a].right = heap[a].right

(* C8: an Insert of a key that is present returns with the key's value     *)
(* replaced and nothing else changed: the same nodes with the same keys,   *)
(* separators, children and siblings, the same root, no split reported,    *)
(* and Search then finds the new value and every other key as before.      *)
C8_InsertExistingReplaces ==
  [][Called("Insert") /\ th'[1].pre # 0 =>
        /\ th'[1].pc = "idle"
        /\ ~th'[1].ret
        /\ SameShape
        /\ \A a \in NodeIds : \A i \in 1..Len(heap[a].vals) :
              heap'[a].vals[i] = IF gmap'[heap[a].keys[i]] # gmap[heap[a].keys[i]]
                                 THEN gmap'[heap[a].keys[i]] ELSE heap[a].vals[i]
        /\ \A k \in Keys : gmap'[k] # gmap[k] => Found(k)' = <<TRUE, gmap'[k]>>]_vars

(* C9: a Delete of a key that is absent returns false and leaves the root, *)
(* every node, every key, value and separator as they were.                *)
C9_DeleteAbsentNoOp ==
  [][Called("Delete") /\ th'[1].pre = 0 =>
        /\ th'[1].pc = "idle"
        /\ ~th'[1].ret
        /\ heap' = heap
        /\ root' = root
        /\ gmap' = gmap]_vars

HoldsLatch(t) == \E l \in LatchIds : latch[l].x = t \/ t \in latch[l].s

(* C10: when Search, Insert or Delete has returned, the thread holds no    *)
(* latch and its context is empty: no registered latch, release cursor 0.  *)
C10_ContextResetOnReturn ==
  \A t \in DOMAIN th :
    th[t].pc = "idle" /\ th[t].op \in {"Search", "Insert", "Delete"} =>
      /\ ~HoldsLatch(t)
      /\ th[t].lat = <<>>
      /\ th[t].unlk = 0

IsLeaf(a) == heap[a].kind = "LEAF"

C7_Witness ==
  /\ ScanEnded(1, FALSE)
  /\ th[1].it.past
  /\ Len(th[1].it.out) >= 2

(* C8 witness: an Insert of a present key has returned in a tree with an   *)
(* internal root whose leaves are all full, key 1 holding a new value.     *)
C8_Witness ==
  /\ Returned(1, "Insert")
  /\ th[1].pre = 1
  /\ gmap[1] = 2
  /\ heap[root].kind = "INTERNAL"
  /\ \A a \in NodeIds : IsLeaf(a) => Size(heap[a]) = caps.L

(* C9 witness: a Delete of an absent key has returned false in a tree with *)
(* an internal root whose leaves are all at the underflow bound.           *)
C9_Witness ==
  /\ Returned(1, "Delete")
  /\ th[1].pre = 0
  /\ ~th[1].ret
  /\ heap[root].kind = "INTERNAL"
  /\ \A a \in NodeIds : IsLeaf(a) => Size(heap[a]) = UNDERFLOW_BOUND(caps.L)

(* A call of thread t has been cut off by the end of the process, or has  *)
(* stopped at a node that is no longer there.                              *)
CutOff(t) == th[t].pc \in {"aborted", "corrupt"}

(* C2: the calls of the workers of SpecInsertSearch all go on to return,   *)
(* and when they have all returned, Search finds every key that was        *)
(* inserted, with its value, and no other key.                             *)
C2_ConcurrentInsertsAllFound ==
  /\ \A t \in DOMAIN th : ~CutOff(t) /\ ~th[t].dead
  /\ AllIdle => \A k \in Keys : Found(k) = <<gmap[k] # 0, gmap[k]>>

(* C2 witness: both workers have made MaxCalls calls, the last an Insert,  *)
(* every key is in the tree, and the tree has grown to three levels.       *)
C2_Witness ==
  /\ WorkersDone
  /\ \A t \in DOMAIN th : th[t].op = "Insert"
  /\ \A k \in Keys : gmap[k] # 0
  /\ Height(heap, root, MaxNodes) = 3

(* C3: a Search that no write of its key overlaps goes on to return what   *)
(* the writes of that key that returned before it began have left:         *)
(* (true, v) after an Insert(k, v), false after a Delete that returned     *)
(* true, whatever the other threads do for other keys meanwhile.           *)
C3_LinearisablePerKey ==
  \A t \in DOMAIN th :
    th[t].op = "Search" /\ th[t].clean =>
      /\ ~CutOff(t)
      /\ th[t].pc = "idle" =>
            /\ th[t].ret = (th[t].pre # 0)
            /\ th[t].ret => th[t].rval = th[t].pre

(* C4: while workers delete distinct keys, their calls go on to return; a  *)
(* Search of a key that no thread has deleted or is deleting returns true  *)
(* with the key's value; when all have returned, Search finds exactly the  *)
(* keys not deleted.                                                       *)
C4_DeletesLeaveOtherKeys ==
  /\ \A t \in DOMAIN th : ~CutOff(t)
  /\ \A t \in DOMAIN th :
       Returned(t, "Search") /\ th[t].clean /\ th[t].pre # 0 =>
         th[t].ret /\ th[t].rval = th[t].pre
  /\ AllIdle => \A k \in Keys : Found(k) = <<gmap[k] # 0, gmap[k]>>

InCall(t) == th[t].pc \notin {"idle", "ended"}

(* C5: no deadlock, and every call that has started goes on to return:     *)
(* while a thread is inside a call, some thread inside a call can take its *)
(* next step.  A call has finitely many steps, so under the fairness of    *)
(* SpecWorkers a call that can always go on does return.                   *)
C5_NoDeadlockAndEveryCallReturns ==
  (\E t \in DOMAIN th : InCall(t)) => \E t \in DOMAIN th : CanStep(Machine, t)

----------------------------------------------------------------------------
(* The shape of the tree after completed operations *)

(* The leaves below node n, in child order *)
RECURSIVE LeavesOf(_, _, _)
LeavesOf(h, n, fuel) ==
  IF fuel = 0 \/ n = 0 \/ h[n].kind = "FREE" THEN <<>>
  ELSE IF h[n].kind = "LEAF" THEN <<n>>
  ELSE LET RECURSIVE Kids(_)
           Kids(i) == IF i > Len(h[n].child) THEN <<>>
                      ELSE LeavesOf(h, h[n].child[i], fuel - 1) \o Kids(i + 1)
       IN Kids(1)

(* The leaves met from leaf a on by RightSibling(), at most fuel of them *)
RECURSIVE SiblingChain(_, _, _)
SiblingChain(h, a, fuel) ==
  IF fuel = 0 \/ a = 0 THEN <<>>
  ELSE <<a>> \o (IF h[a].kind = "FREE" THEN <<>> ELSE SiblingChain(h, h[a].right, fuel - 1))

(* The keys of a sequence of leaves, one leaf after the other *)
RECURSIVE KeysAlong(_, _)
KeysAlong(h, leaves) ==
  IF leaves = <<>> THEN <<>> ELSE h[Head(leaves)].keys \o KeysAlong(h, Tail(leaves))

StrictlyAscending(s) == \A i \in 1..(Len(s) - 1) : s[i] < s[i + 1]

(* The keys stored in the leaves below node n *)
SubtreeKeys(h, n) == Range(KeysAlong(h, LeavesOf(h, n, MaxNodes)))

(* The nodes of the tree *)
TreeNodes == Range(Preorder(Machine, root, MaxNodes))

(* C11: the leaves met from the leftmost leaf on by right-sibling pointers *)
(* are the leaves of the tree, each once and in child order, and the keys  *)
(* along the chain are strictly ascending.                                 *)
C11_LeafChainInOrder ==
  LET leaves == LeavesOf(heap, root, MaxNodes)
  IN /\ SiblingChain(heap, Head(leaves), MaxNodes + 1) = leaves
     /\ StrictlyAscending(KeysAlong(heap, leaves))

(* C12: in every internal node, the keys below child i are at most         *)
(* separator i (for every child but the last) and above separator i - 1    *)
(* (for every child but the first), so the descent by lower_bound over the *)
(* separators reaches the one leaf that can hold a key.                    *)
C12_SeparatorsBoundSubtrees ==
  \A n \in TreeNodes : heap[n].kind = "INTERNAL" =>
    \A i \in 0..(Size(heap[n]) - 1) : \A k \in SubtreeKeys(heap, At(heap[n].child, i)) :
       /\ i < Size(heap[n]) - 1 => k <= At(heap[n].keys, i)
       /\ i > 0 => k > At(heap[n].keys, i - 1)

(* C12 witness: a Delete has returned true in a tree of three levels whose *)
(* internal nodes all have two children or more, every child with keys.    *)
C12_Witness ==
  /\ Returned(1, "Delete")
  /\ th[1].ret
  /\ Height(heap, root, MaxNodes) = 3
  /\ \A n \in TreeNodes : heap[n].kind = "INTERNAL" =>
        /\ Size(heap[n]) >= 2
        /\ \A i \in 0..(Size(heap[n]) - 1) : SubtreeKeys(heap, At(heap[n].child, i)) # {}

(* C13, as stated: every separator equals the largest key stored below the *)
(* child to its left.                                                      *)
C13_SeparatorIsRightmostKey ==
  \A n \in TreeNodes : heap[n].kind = "INTERNAL" =>
    \A i \in 0..(Size(heap[n]) - 2) :
       LET ks == SubtreeKeys(heap, At(heap[n].child, i))
           sep == At(heap[n].keys, i)
       IN ks # {} /\ sep \in ks /\ \A k \in ks : k <= sep

(* C13, amended: every separator is at least every key stored below the    *)
(* child to its left, and a separator that is a key of the tree is stored  *)
(* below that child (so it is that child's rightmost key); a separator     *)
(* whose key a Delete has removed without an underflow stays as it was.    *)
C13_SeparatorBoundsLeftChild ==
  \A n \in TreeNodes : heap[n].kind = "INTERNAL" =>
    \A i \in 0..(Size(heap[n]) - 2) :
       LET ks == SubtreeKeys(heap, At(heap[n].child, i))
           sep == At(heap[n].keys, i)
       IN /\ \A k \in ks : k <= sep
          /\ sep \in SubtreeKeys(heap, root) => sep \in ks

(* C13 witness: a Delete has returned true and left a separator that is no *)
(* longer a key of the tree, above a left child that still has keys, in a  *)
(* run without any out-of-bounds access or failed assertion.               *)
C13_Witness ==
  /\ Returned(1, "Delete")
  /\ th[1].ret
  /\ ub = {} /\ af = {}
  /\ \E n \in TreeNodes :
        /\ heap[n].kind = "INTERNAL"
        /\ \E i \in 0..(Size(heap[n]) - 2) :
              /\ SubtreeKeys(heap, At(heap[n].child, i)) # {}
              /\ At(heap[n].keys, i) \notin SubtreeKeys(heap, root)

(* The capacity of node n: LeafCapacity or InternalCapacity *)
Capacity(n) == IF heap[n].kind = "LEAF" THEN caps.L ELSE caps.I

(* ceil((cap + 1) / 2) *)
CeilHalfPlus(cap) == (cap + 2) \div 2

(* C14: every node other than the root holds at least ceil((cap + 1) / 2)  *)
(* entries (a leaf) or children (an internal node), cap being the node's   *)
(* capacity; the two halves of a split are such nodes.                     *)
C14_MinimumOccupancy ==
  \A n \in TreeNodes \ {root} : Size(heap[n]) >= CeilHalfPlus(Capacity(n))

(* C15: every leaf holds at most L entries and every internal node at most *)
(* I children (so never more than I + 1 while an operation runs), and no   *)
(* operation has stored past the end of a key, value or child array.       *)
C15_CapacityRespected ==
  /\ \A n \in TreeNodes : Size(heap[n]) <= Capacity(n)
  /\ ub \cap {"oob_keys", "oob_child", "oob_leaf"} = {}

(* C16: after a completed Delete the root is not an internal node with one *)
(* child, and when every key has been deleted the root is an empty leaf    *)
(* and the only node left.                                                 *)
C16_RootCollapsed ==
  Returned(1, "Delete") =>
    /\ ~(heap[root].kind = "INTERNAL" /\ Size(heap[root]) = 1)
    /\ (\A k \in Keys : gmap[k] = 0) =>
          /\ heap[root] = EmptyLeaf
          /\ \A a \in NodeIds \ {root} : heap[a].kind = "FREE"

----------------------------------------------------------------------------
(* Specification SpecScanWorkers: one thread starts a RangeQuery or a      *)
(* TreeScan and calls Next, again after a contention error, while a second *)
(* thread calls Insert and Delete, each thread with its own QueryContext.  *)
(* An action is one step of one thread; Next never waits and is one step.  *)
(* The scanner calls Next until its calls have returned MaxOut entries.    *)

Scanners == {1}

InitScanWorkers == InitLoaded(Threads, WorkerCaps, {<<1, 2>>, <<1, 2, 4>>, AllKeys})

(* it->Next(key, value) of a scanner, a retry after std::range_error included *)
NextRetried(t) ==
  /\ Len(th[t].it.out) < MaxOut
  /\ NextOf(t)

(* The scanner's one call of RangeQuery or TreeScan, up to its AcquireLatch *)
(* on tree_latch_                                                          *)
ScanCall(t, op, lo, hi) ==
  /\ t \in Scanners
  /\ th[t].pc = "idle"
  /\ th[t].calls = 0
  /\ \E m \in {Call(Machine, t, op, lo, hi)} : Commit([m EXCEPT !.th[t].calls = 1])
  /\ gmap' = gmap

NextScanWorkers ==
  \E t \in Threads :
    \/ \E lo \in Keys, hi \in Keys : ScanCall(t, "RangeQuery", lo, hi)
    \/ ScanCall(t, "TreeScan", 0, 0)
    \/ t \in Scanners /\ NextRetried(t)
    \/ \E k \in Keys : t \notin Scanners /\ th[t].calls < MaxWrites /\ WorkerCall(t, "Insert", k, 1)
    \/ \E k \in Keys : t \notin Scanners /\ th[t].calls < MaxWrites /\ WorkerCall(t, "Delete", k, 0)
    \/ EnterTree(t)
    \/ EnterNode(t)
    \/ LockSibling(t)
    \/ TreePost(t)
    \/ RootInstall(t)
    \/ RootInspect(t)

SpecScanWorkers == InitScanWorkers /\ [][NextScanWorkers]_vars

(* The keys the successful Next calls of thread t's iterator have returned *)
OutKeys(t) == [i \in 1..Len(th[t].it.out) |-> th[t].it.out[i][1]]

(* C17: the keys returned by the successive successful Next calls of a     *)
(* scan that runs while another thread inserts and deletes are strictly    *)
(* increasing, also when Next is called again after a contention error.    *)
C17_ScanKeysIncrease ==
  \A t \in Scanners : StrictlyAscending(OutKeys(t))

(* A call of Next by thread t that ends with the contention error: t is    *)
(* between calls before and after, its iterator is in use, nothing but t's *)
(* own state changes, and the call reports the error.                      *)
NextContended(t) ==
  /\ th[t].pc = "idle" /\ th[t].it.live
  /\ th'[t].op = "Next" /\ th'[t].err
  /\ th'[t] # th[t]
  /\ heap' = heap
  /\ \A u \in DOMAIN th \ {t} : th'[u] = th[u]

(* C18: a Next that cannot take the right sibling's latch at once reports  *)
(* the contention error and leaves the iterator as it was: the same        *)
(* current leaf, the same offset and the same latches held.                *)
C18_ContentionLeavesIterator ==
  [][\A t \in Scanners : NextContended(t) =>
        /\ th'[t].it.cur = th[t].it.cur
        /\ th'[t].it.off = th[t].it.off
        /\ th'[t].lat = th[t].lat
        /\ th'[t].unlk = th[t].unlk
        /\ latch' = latch]_vars

----------------------------------------------------------------------------
(* Specification SpecQuery: one thread builds a tree over the keys         *)
(* 1..MaxScanKey with Insert and Delete, calls Search, and then scans it.  *)

NextQuery ==
  \/ NextScan
  \/ \E k \in ScanKeys : Search(k)

SpecQuery == Init /\ [][NextQuery]_vars

(* Every key has been deleted, or none was ever inserted *)
NoKeyStored == \A k \in Keys : gmap[k] = 0

(* C19: on an empty tree, fresh or emptied by deletes, Search returns      *)
(* false for every key, and the first Next of a TreeScan or RangeQuery     *)
(* reports the end: no entry, no error, the scan is over.                  *)
C19_EmptyTreeFindsNothing ==
  NoKeyStored =>
    /\ Returned(1, "Search") => ~th[1].ret
    /\ Returned(1, "Next") =>
          ~th[1].ret /\ ~th[1].err /\ ~th[1].it.live /\ th[1].it.out = <<>>

(* C19 witness: the tree holds no key, and the first Next of a RangeQuery   *)
(* has reported the end.                                                   *)
C19_Witness ==
  /\ NoKeyStored
  /\ Returned(1, "Next")
  /\ th[1].it.bounded
  /\ ~th[1].ret /\ ~th[1].err

----------------------------------------------------------------------------
(* Specification SpecUpdate: on a tree built by Inserts, one thread calls  *)
(* Update on a node of the tree (Update is an operation of the nodes;      *)
(* MemoryBTree has none) and Search on the tree.  The caller clears its    *)
(* context after an Update that has returned.                              *)

InitUpdate ==
  InitLoaded({1}, [L : 2..MaxLeafCap, I : 2..MaxIntCap], {<<>>, <<1, 2, 4>>})

(* The call of a node's operation: no tree latch, the descent starts at n *)
NodeCall(m, t, op, n, key, val) ==
  [Call(m, t, op, key, val) EXCEPT !.th[t].pc = "node", !.th[t].cur = n]

(* unlock_shared() of a latch held exclusively: pthread_rwlock_unlock      *)
(* releases the latch; the std::shared_mutex built on a mutex and two      *)
(* condition variables decrements its reader count and leaves the latch    *)
(* unavailable.  Both are outcomes.                                        *)
UpdateOutcomes(t, m) ==
  IF "unlock_mode" \notin m.ub THEN {m}
  ELSE {m, [m EXCEPT !.latch = [l \in LatchIds |->
                                  IF m.latch[l].x = t THEN [m.latch[l] EXCEPT !.x = 0]
                                  ELSE m.latch[l]]]}

(* node->Update(k, v, &context), then context.Clear().  The thread keeps,  *)
(* for the properties, the arguments of the call that has returned: the    *)
(* node in cur, the key and the value.                                     *)
Update(n, k, v) ==
  /\ MayCall(1)
  /\ n \in TreeNodes
  /\ \E m \in UpdateOutcomes(1, Run(NodeCall(Machine, 1, "Update", n, k, v), 1)) :
        /\ Commit(IF m.th[1].pc = "idle"
                  THEN [ContextClear(m, 1) EXCEPT !.th[1].cur = n, !.th[1].key = k,
                                                  !.th[1].val = v]
                  ELSE m)
        /\ gmap' = IF m.th[1].pc = "idle" /\ m.th[1].ret THEN [gmap EXCEPT ![k] = v] ELSE gmap

NextUpdate ==
  \/ \E n \in NodeIds, k \in Keys, v \in Vals : Update(n, k, v)
  \/ \E k \in Keys : Search(k)

SpecUpdate == InitUpdate /\ [][NextUpdate]_vars

(* The Search(k) of node n that follows, run to its return: <<returned,    *)
(* found, value>>                                                          *)
SearchAfter(n, k) ==
  LET r == Run(NodeCall(Machine, 1, "Search", n, k, 0), 1)
  IN <<r.th[1].pc = "idle", r.th[1].ret, r.th[1].rval>>

(* C20: Update(k, v) on a node returns, true exactly when k is stored      *)
(* below the node; when it has returned true the Search(k) that follows    *)
(* returns v; and the call leaves the keys, the values of the other keys   *)
(* and the structure of the nodes unchanged.                               *)
C20_UpdateOverwrites ==
  /\ [](th[1].op = "Update" =>
          /\ th[1].pc = "idle"
          /\ th[1].ret = (th[1].key \in SubtreeKeys(heap, th[1].cur))
          /\ th[1].ret => SearchAfter(th[1].cur, th[1].key) = <<TRUE, TRUE, th[1].val>>)
  /\ [][th'[1].op = "Update" =>
          /\ SameShape
          /\ \A a \in NodeIds : \A i \in 1..Len(heap[a].vals) :
                heap[a].keys[i] # th'[1].key \/ ~th'[1].ret
                   => heap'[a].vals[i] = heap[a].vals[i]]_vars

----------------------------------------------------------------------------
(* The latches held at each point of an operation *)

Holds(t, l, mode) == IF mode = "X" THEN latch[l].x = t ELSE t \in latch[l].s

(* The step is thread t's store to root_: release() and the assignment of  *)
(* the new root in Insert; release(), reset() and delete of the old root   *)
(* in Delete when the root it has inspected is internal with one child.    *)
RootReplacedBy(t) ==
  \/ th[t].pc = "post" /\ th[t].op = "Insert" /\ th'[t].pc = "inst"
  \/ th[t].pc = "inst" /\ th'[t].pc = "idle"
  \/ /\ th[t].pc = "insp" /\ th'[t].pc = "idle"
     /\ heap[th[t].cur].kind = "INTERNAL" /\ Size(heap[th[t].cur]) = 1

(* C21: a thread replaces the root (new root after a root split, promoted  *)
(* child after a collapse decided on the root it has read) only while it   *)
(* holds the tree latch in exclusive mode, and no two threads are at a     *)
(* replacement of the root at the same time.                               *)
C21_RootReplacedUnderTreeLatch ==
  [][\A t \in DOMAIN th :
        RootReplacedBy(t) =>
           /\ Holds(t, TreeLatch, "X")
           /\ \A u \in DOMAIN th \ {t} : th[u].pc # "inst"]_vars

(* The nodes whose content the next step of thread t reads: the node it    *)
(* latches; in the step of sibl_latch->lock() the parent, the two children *)
(* Balance works on and, when an internal child borrows from its right     *)
(* sibling, the moved grandchild (RIGHTMOST_KEY(child_[Size])); in the     *)
(* root inspection of Delete the root loaded (Type() and Size()).          *)
NodesRead(t) ==
  IF th[t].pc \in {"node", "insp"} THEN {th[t].cur}
  ELSE IF th[t].pc = "sibl"
  THEN LET n == th[t].path[th[t].fr]
           pair == BalancePair(heap[n], th[t].tix[th[t].fr])
           l == heap[pair[3]]
           r == heap[pair[4]]
           bound == UNDERFLOW_BOUND(caps.I)
       IN {n, pair[3], pair[4]}
            \cup IF l.kind = "INTERNAL" /\ Size(l) < bound /\ Size(r) > bound
                 THEN {At(r.child, 0)} ELSE {}
  ELSE {}

(* The nodes whose content the next step of thread t changes or frees *)
NodesWritten(t) ==
  {a \in NodeIds : heap[a].kind # "FREE" /\ Step(Machine, t).heap[a] # heap[a]}

(* Thread t holds the latch of node a, or takes it at the start of its step *)
Guarded(t, a, modes) ==
  \/ \E mode \in modes : Holds(t, a, mode)
  \/ th[t].pc \in {"node", "sibl"} /\ Wanted(Machine, t)[1] = a /\ Wanted(Machine, t)[2] \in modes

(* C22: every step of every operation reads the content of a node only     *)
(* under the node's latch (shared or exclusive) and changes it only under  *)
(* the node's exclusive latch, the root inspection of Delete included.     *)
C22_NodeAccessUnderLatch ==
  \A t \in DOMAIN th :
     CanStep(Machine, t) =>
        /\ \A a \in NodesRead(t) : Guarded(t, a, {"S", "X"})
        /\ \A a \in NodesWritten(t) : Guarded(t, a, {"X"})

(* The next step of thread t restructures: it splits, rebalances or merges *)
(* children and updates the separators or child slots of these parents.    *)
ParentsUpdated(t) ==
  IF th[t].pc \in {"node", "sibl"}
  THEN {p \in NodesWritten(t) : heap[p].kind = "INTERNAL" /\ \E c \in NodesWritten(t) : c \in Range(heap[p].child)}
  ELSE {}

(* C23: when a thread splits, rebalances or merges a child, it has held    *)
(* the parent's exclusive latch since before the change, and no other      *)
(* thread holds a latch on, or is at a read of, the parent or a node that  *)
(* the step changes.                                                       *)
C23_RestructureUnderParentLatch ==
  \A t \in DOMAIN th :
     CanStep(Machine, t) /\ ParentsUpdated(t) # {} =>
        /\ \A p \in ParentsUpdated(t) : Holds(t, p, "X")
        /\ \A u \in DOMAIN th \ {t} : \A a \in NodesWritten(t) :
              /\ ~Holds(u, a, "S") /\ ~Holds(u, a, "X")
              /\ CanStep(Machine, u) => a \notin NodesRead(u)

(* Node n is safe for the operation: an insert cannot split it, a delete   *)
(* cannot make it underflow.                                               *)
SafeFor(op, n) ==
  IF op = "Insert" THEN Size(heap[n]) < Capacity(n)
  ELSE Size(heap[n]) - 1 >= UNDERFLOW_BOUND(Capacity(n))

(* The machine when the node function called on th[t].cur has taken the    *)
(* node's latch and released what it releases: for an internal node at the *)
(* call of its child, for a leaf at its return.                            *)
Latched(t) ==
  LET n == th[t].cur
  IN IF heap[n].kind = "INTERNAL" THEN Step(Machine, t)
     ELSE IF th[t].op = "Insert" THEN LeafInsert(Machine, t, n)
     ELSE LeafDelete(Machine, t, n)

(* The leaf function has reported a split or an underflow to its caller *)
Reported(t, m) == IF th[t].op = "Insert" THEN m.th[t].ret ELSE m.th[t].ret /\ m.th[t].und

HeldX(l, t) == {a \in LatchIds : l[a].x = t}

(* C24: a writer that latches a node safe for its operation then holds no  *)
(* latch of an ancestor, the tree latch included; at an unsafe node it     *)
(* still holds every latch it held on arrival; a leaf reports a split or   *)
(* an underflow only when it was unsafe, and the report reaches the tree   *)
(* with the tree latch still held.                                         *)
C24_AncestorsReleasedWhenSafe ==
  \A t \in DOMAIN th :
     /\ th[t].pc = "node" /\ th[t].op \in Writes /\ CanStep(Machine, t)
          /\ heap[th[t].cur].kind # "FREE" =>
           LET n == th[t].cur
               m == Latched(t)
               internal == heap[n].kind = "INTERNAL"
           IN /\ SafeFor(th[t].op, n) => HeldX(m.latch, t) \subseteq {n}
              /\ ~SafeFor(th[t].op, n) /\ (internal \/ Reported(t, m))
                    => HeldX(latch, t) \cup {n} \subseteq HeldX(m.latch, t)
              /\ ~internal /\ Reported(t, m) => ~SafeFor(th[t].op, n)
     /\ th[t].pc = "post" /\ (th[t].op = "Insert" \/ th[t].und) => Holds(t, TreeLatch, "X")

(* C24 witness: a writer that holds the tree latch and the latch of an     *)
(* unsafe parent is at an unsafe leaf, which reports a split or an         *)
(* underflow, while another writer waits for the tree latch.               *)
C24_Witness ==
  \E t \in DOMAIN th :
     /\ th[t].pc = "node" /\ th[t].op \in Writes /\ CanStep(Machine, t)
     /\ heap[th[t].cur].kind = "LEAF"
     /\ ~SafeFor(th[t].op, th[t].cur)
     /\ Reported(t, Latched(t))
     /\ Cardinality(HeldX(latch, t)) >= 2
     /\ \E u \in DOMAIN th \ {t} : th[u].pc = "tree" /\ th[u].op \in Writes

(* C25: no step unlocks a latch in a mode other than the one the thread    *)
(* holds it in, or unlocks a latch the thread does not hold (a second      *)
(* release), and no context lists latches held in different modes.         *)
C25_ReleaseInAcquiredMode ==
  /\ ub \cap {"unlock_mode", "unlock_unheld"} = {}
  /\ \A t \in DOMAIN th :
        ~\E a \in Range(th[t].lat), b \in Range(th[t].lat) : latch[a].x = t /\ t \in latch[b].s

(* The machine when Update(k, v), called on internal node n, has taken the *)
(* latch of n and is at the call of its child's Update.                    *)
UpdateAt(n, k) == Step(NodeCall(Machine, 1, "Update", n, k, 1), 1)

(* C26: an Update that has latched an internal node holds that latch in    *)
(* shared mode, so that a Search arriving at the node can take its latch.  *)
C26_UpdateSharesInternalNodes ==
  \A n \in TreeNodes : \A k \in Keys :
     heap[n].kind = "INTERNAL" /\ CanLock(Machine, 1, n, "X") =>
        CanLock(UpdateAt(n, k), 2, n, "S")

(* Every latch the context of thread t lists from index from on is held    *)
(* exclusively by t.                                                       *)
KeepsFrom(t, from) == \A i \in from + 1..Len(th[t].lat) : Holds(t, th[t].lat[i], "X")

(* C27: a node's Insert or Delete that reports a split or an underflow to  *)
(* its caller has kept its own latch and the latches held above it, and    *)
(* has left the release cursor where it was; one that reports neither has  *)
(* released every latch of the context.  The callers are the parent, at    *)
(* sibl_latch->lock(), and the tree, after root_->Insert or root_->Delete. *)
C27_LatchesKeptIffReported ==
  \A t \in DOMAIN th :
     /\ th[t].pc = "sibl" => KeepsFrom(t, th[t].unlk) /\ th[t].unlk <= FrameDepth(Machine, t, th[t].fr)
     /\ th[t].pc = "post" /\ (th[t].op = "Insert" \/ th[t].und)
          => KeepsFrom(t, th[t].base) /\ th[t].unlk = th[t].base
     /\ (th[t].pc = "post" /\ th[t].op = "Delete" /\ ~th[t].und)
          \/ (th[t].pc = "idle" /\ th[t].op \in Writes)
          => HeldX(latch, t) = {} /\ \A l \in LatchIds : t \notin latch[l].s

(* C27 witness: the root's Delete has reported an underflow to the tree    *)
(* for one thread, which holds the tree latch and the root's latch, while  *)
(* another thread's root Delete has returned with no underflow.            *)
C27_Witness ==
  \E t \in DOMAIN th : \E u \in DOMAIN th \ {t} :
     /\ th[t].pc = "post" /\ th[t].op = "Delete" /\ th[t].und
     /\ Len(th[t].lat) >= 2
     /\ th[u].pc = "post" /\ th[u].op = "Delete" /\ ~th[u].und

(* The latches thread t holds, in either mode *)
HeldBy(t) == {l \in LatchIds : latch[l].x = t \/ t \in latch[l].s}

(* C28: when RangeQuery has returned, the key_low present or not, the only *)
(* latch the scan holds is the shared latch of the leaf LocateKey has      *)
(* selected: the tree latch and the latches of the internal nodes on the   *)
(* way down have been released.                                            *)
C28_RangeQueryHoldsLeafOnly ==
  \A t \in DOMAIN th :
     Returned(t, "RangeQuery") =>
        /\ HeldBy(t) = {th[t].it.cur}
        /\ t \in latch[th[t].it.cur].s
        /\ heap[th[t].it.cur].kind = "LEAF"

(* C28 witness: RangeQuery has returned on a tree of two levels or more,   *)
(* for a key_low that the tree does not hold.                              *)
C28_Witness ==
  /\ Returned(1, "RangeQuery")
  /\ heap[root].kind = "INTERNAL"
  /\ ~th[1].ret
  /\ th[1].it.lo \notin SubtreeKeys(heap, root)
  /\ 1 \in latch[th[1].it.cur].s

(* The leftmost leaf of the tree *)
RECURSIVE LeftmostLeaf(_, _, _)
LeftmostLeaf(h, n, fuel) ==
  IF fuel = 0 \/ h[n].kind # "INTERNAL" \/ Size(h[n]) = 0 THEN n
  ELSE LeftmostLeaf(h, At(h[n].child, 0), fuel - 1)

(* C29: when TreeScan has returned, on a tree of any shape, the only latch *)
(* the scan holds is the shared latch of the leftmost leaf.                *)
C29_TreeScanHoldsLeafOnly ==
  \A t \in DOMAIN th :
     Returned(t, "TreeScan") =>
        /\ th[t].it.cur = LeftmostLeaf(heap, root, MaxNodes)
        /\ HeldBy(t) = {th[t].it.cur}
        /\ t \in latch[th[t].it.cur].s

(* C30: as long as an iterator has not reported the end, its thread holds  *)
(* the shared latch of the leaf under the cursor, that leaf is a leaf of   *)
(* the tree that has not been freed, and so is the right sibling the       *)
(* cursor moves to next.                                                   *)
C30_CursorLeafStaysLatched ==
  \A t \in DOMAIN th :
     th[t].it.live /\ th[t].pc = "idle" /\ th[t].it.cur # 0 =>
        LET c == th[t].it.cur
        IN /\ heap[c].kind = "LEAF"
           /\ t \in latch[c].s
           /\ heap[c].right # 0 => heap[heap[c].right].kind = "LEAF"

(* C30 witness: the iterator has moved from one leaf to its right sibling   *)
(* and has returned an entry of it, while a Delete of another thread waits *)
(* for the latch of the cursor leaf.                                       *)
C30_Witness ==
  \E t \in DOMAIN th, u \in DOMAIN th :
     /\ th[t].it.live /\ th[t].pc = "idle" /\ th[t].op = "Next" /\ th[t].it.cur # 0
     /\ LeftmostLeaf(heap, root, MaxNodes) # th[t].it.cur
     /\ t \in latch[th[t].it.cur].s
     /\ u # t /\ th[u].op = "Delete" /\ th[u].pc \in {"node", "sibl"}
     /\ Wanted(Machine, u)[1] = th[t].it.cur
     /\ ~CanStep(Machine, u)

----------------------------------------------------------------------------
(* The end of a scan, the freeing of nodes, and the shape of the tree *)

(* The scan of thread t has ended: a Next has returned false without      *)
(* std::range_error                                                        *)
NextReturnedFalse(t) ==
  /\ th[t].pc = "idle"
  /\ th[t].op = "Next"
  /\ ~th[t].ret
  /\ ~th[t].err

(* C31: after Next has returned false, at the end of the rightmost leaf or  *)
(* at a key above hi, the scan holds no latch of a node or of the tree,    *)
(* and no Insert or Delete of another thread waits for a latch that the    *)
(* ended scan holds.                                                       *)
C31_EndedScanHoldsNoLatch ==
  \A t \in DOMAIN th :
     NextReturnedFalse(t) =>
        /\ HeldBy(t) = {}
        /\ \A u \in DOMAIN th \ {t} :
              th[u].pc \in {"tree", "node", "sibl"} /\ ~CanStep(Machine, u) =>
                 Wanted(Machine, u)[1] \notin HeldBy(t)

(* The latches of thread t's context that a later ReleaseLatch or           *)
(* ReleaseLatchFromParent unlocks: latches_[smallest_unlk_idx_ ..]         *)
Registered(t) == {At(th[t].lat, i) : i \in th[t].unlk..(Len(th[t].lat) - 1)}

(* C32: no node is freed while a thread holds its latch or a context still  *)
(* has the latch to release, and no unlock is of the latch of a freed node.*)
C32_NoFreeWhileLatched ==
  /\ ub \cap {"free_latched", "unlock_freed"} = {}
  /\ \A a \in NodeIds : heap[a].kind = "FREE" =>
        /\ latch[a] = FreeLatch
        /\ \A t \in DOMAIN th : th[t].pc # "idle" => a \notin Registered(t)

(* The child slots <<parent, index>> that hold the address a *)
SlotsOf(a) ==
  {s \in NodeIds \X (0..MaxNodes) :
      /\ heap[s[1]].kind = "INTERNAL"
      /\ s[2] < Len(heap[s[1]].child)
      /\ At(heap[s[1]].child, s[2]) = a}

(* C33: after a completed operation every allocated node is the root or is  *)
(* held by exactly one child slot, of a node of the tree, and is reachable *)
(* from the root; no child slot and no right-sibling pointer of an         *)
(* allocated node holds the address of a freed node.  So a merge or a root *)
(* collapse has freed the discarded node and none of the nodes that were   *)
(* moved or promoted.                                                      *)
C33_NodesOwnedOnce ==
  (\A t \in DOMAIN th : th[t].pc = "idle") =>
     \A a \in NodeIds : heap[a].kind # "FREE" =>
        /\ a \in TreeNodes
        /\ Cardinality(SlotsOf(a)) = (IF a = root THEN 0 ELSE 1)
        /\ \A i \in 0..(Len(heap[a].child) - 1) :
              At(heap[a].child, i) # 0 /\ heap[At(heap[a].child, i)].kind # "FREE"
        /\ heap[a].right # 0 => heap[heap[a].right].kind # "FREE"

(* The depths of the leaves below node n, n being at depth d *)
RECURSIVE LeafDepths(_, _, _, _)
LeafDepths(h, n, d, fuel) ==
  IF fuel = 0 \/ n = 0 \/ h[n].kind = "FREE" THEN {0}
  ELSE IF h[n].kind = "LEAF" THEN {d}
  ELSE UNION {LeafDepths(h, At(h[n].child, i), d + 1, fuel - 1) : i \in 0..(Len(h[n].child) - 1)}

(* C34: after every completed Insert and Delete all leaves are at the same  *)
(* depth; an operation changes the height by one at most, only an Insert   *)
(* makes the tree higher, and its new root then has the two halves of the  *)
(* old root as children, and only a Delete makes it lower.                 *)
C34_LeavesAtOneDepth ==
  /\ [](th[1].pc = "idle" => Cardinality(LeafDepths(heap, root, 1, MaxNodes)) = 1)
  /\ [][LET before == Height(heap, root, MaxNodes)
            after == Height(heap', root', MaxNodes)
        IN /\ after > before =>
                 after = before + 1 /\ th'[1].op = "Insert" /\ Size(heap'[root']) = 2
           /\ after < before => after = before - 1 /\ th'[1].op = "Delete"]_vars

(* C34 witness: a Delete has merged the two leaves below the root and the   *)
(* root has been replaced by its one child, a full leaf, after an Insert   *)
(* had split the root.                                                     *)
C34_Witness ==
  /\ Returned(1, "Delete")
  /\ th[1].ret
  /\ heap[root].kind = "LEAF"
  /\ Size(heap[root]) = caps.L

(* The machines in which a Delete of thread t, run from machine m on, is   *)
(* about to call Balance: it has reached sibl_latch->lock() in a frame     *)
RECURSIVE BalanceCalls(_, _)
BalanceCalls(m, t) ==
  IF ~CanStep(m, t) THEN {}
  ELSE (IF m.th[t].pc = "sibl" THEN {m} ELSE {}) \cup BalanceCalls(Step(m, t), t)

BalanceAsserts ==
  {"LeafBalance_left_size", "LeafBalance_right_size", "LeafBalance_unused_underflow",
   "InternalBalance_left_size", "InternalBalance_right_size", "InternalBalance_unused_underflow"}

(* C35: when InternalNode::Delete calls Balance on two siblings, exactly    *)
(* one of them is below the underflow bound of its kind and holds bound - 1 *)
(* entries; no assertion of Balance fails; and after a borrow neither       *)
(* sibling is below the bound.                                             *)
C35_BalanceOnOneUnderflow ==
  MayCall(1) =>
    \A k \in Keys : \A mm \in BalanceCalls(CallOf(1, "Delete", k, 0), 1) :
       LET node == mm.heap[mm.th[1].path[mm.th[1].fr]]
           pair == BalancePair(node, mm.th[1].tix[mm.th[1].fr])
           l == pair[3]
           r == pair[4]
           bound == UNDERFLOW_BOUND(IF mm.heap[l].kind = "LEAF" THEN mm.L ELSE mm.I)
           low == {a \in {l, r} : Size(mm.heap[a]) < bound}
           bal == Balance(mm, l, r, At(node.keys, pair[1]))
       IN /\ Cardinality(low) = 1
          /\ \A a \in low : Size(mm.heap[a]) = bound - 1
          /\ bal[1].af \cap BalanceAsserts = {}
          /\ ~bal[3] => Size(bal[1].heap[l]) >= bound /\ Size(bal[1].heap[r]) >= bound

----------------------------------------------------------------------------
(* The functions of a leaf: Insert into a full leaf, and Balance *)

(* The entries of a leaf, in the order of its arrays *)
EntriesOf(node) == [i \in 1..Size(node) |-> <<node.keys[i], node.vals[i]>>]

(* The full leaves of the tree on which leaf->Insert can be called *)
FullLeaves ==
  {n \in TreeNodes : /\ heap[n].kind = "LEAF"
                     /\ Size(heap[n]) = caps.L
                     /\ StrictlyAscending(heap[n].keys)
                     /\ latch[n] = FreeLatch}

(* leaf->Insert(k, v, split, &context) on leaf n, up to its return *)
LeafInsertOf(n, k, v) == LeafInsert(NodeCall(Machine, 1, "Insert", n, k, v), 1, n)

(* C36: Insert of a new key into a leaf of L entries reports a split and    *)
(* allocates one node, the new right sibling; the entries of the leaf      *)
(* followed by those of the sibling are the old entries and the new one,   *)
(* in strictly ascending key order; the boundary reported is the last key  *)
(* of the leaf; the sibling stands between the leaf and the leaf's former  *)
(* right sibling; no other node changes.                                   *)
C36_FullLeafSplitsOnce ==
  MayCall(1) =>
    \A n \in FullLeaves : \A k \in Keys \ Range(heap[n].keys) : \A v \in Vals :
       LET res == LeafInsertOf(n, k, v)
           split == res.th[1].split
           a == split.right
           all == EntriesOf(res.heap[n]) \o EntriesOf(res.heap[a])
       IN /\ res.th[1].ret
          /\ res.ub = {} /\ res.af = {}
          /\ split.left = n
          /\ a \in NodeIds /\ heap[a].kind = "FREE" /\ res.heap[a].kind = "LEAF"
          /\ \A b \in NodeIds \ {n, a} : res.heap[b] = heap[b]
          /\ Len(all) = caps.L + 1
          /\ Range(all) = Range(EntriesOf(heap[n])) \cup {<<k, v>>}
          /\ StrictlyAscending([i \in 1..Len(all) |-> all[i][1]])
          /\ Size(res.heap[n]) > 0 /\ Size(res.heap[a]) > 0
          /\ split.bkey = RIGHTMOST_KEY(res.heap[n])
          /\ res.heap[n].right = a
          /\ res.heap[a].right = heap[n].right

(* C36 witness: an Insert has split a leaf, and the tree holds a full leaf  *)
(* with a right sibling and a key that the leaf does not hold.             *)
C36_Witness ==
  /\ Returned(1, "Insert")
  /\ th[1].ret
  /\ MayCall(1)
  /\ \E n \in FullLeaves : heap[n].right # 0 /\ Keys \ Range(heap[n].keys) # {}

(* The calls left->Balance(right, boundary) on two leaves that a Delete of  *)
(* thread 1 makes from the present state: <<machine, left, right, boundary>> *)
LeafBalanceCalls ==
  IF ~MayCall(1) THEN {}
  ELSE {c \in UNION {{LET node == mm.heap[mm.th[1].path[mm.th[1].fr]]
                          pair == BalancePair(node, mm.th[1].tix[mm.th[1].fr])
                      IN <<mm, pair[3], pair[4], At(node.keys, pair[1])>> :
                         mm \in BalanceCalls(CallOf(1, "Delete", k, 0), 1)} : k \in Keys} :
          c[1].heap[c[2]].kind = "LEAF"}

(* The calls with the left leaf below the underflow bound and the right     *)
(* leaf above it                                                           *)
BorrowFromRightCalls ==
  {c \in LeafBalanceCalls :
      /\ Size(c[1].heap[c[2]]) < UNDERFLOW_BOUND(caps.L)
      /\ Size(c[1].heap[c[3]]) > UNDERFLOW_BOUND(caps.L)}

(* C37, as stated: with the left leaf below the bound and the right leaf    *)
(* above it, Balance moves the first entry of the right leaf to the end of *)
(* the left leaf, sets the boundary to the leftmost key the right leaf has *)
(* afterwards, and returns not-merged.                                     *)
C37_BorrowSetsNewLeftmost ==
  \A c \in BorrowFromRightCalls :
     LET bal == LeafBalance(c[1], c[2], c[3], c[4])
     IN /\ EntriesOf(bal[1].heap[c[2]]) =
              Append(EntriesOf(c[1].heap[c[2]]), Head(EntriesOf(c[1].heap[c[3]])))
        /\ EntriesOf(bal[1].heap[c[3]]) = Tail(EntriesOf(c[1].heap[c[3]]))
        /\ bal[2] = LEFTMOST_KEY(bal[1].heap[c[3]])
        /\ ~bal[3]

(* C37, amended: the boundary is the key of the entry moved, which is the   *)
(* last key of the left leaf and was the first key of the right leaf.      *)
C37_BorrowSetsMovedKey ==
  \A c \in BorrowFromRightCalls :
     LET bal == LeafBalance(c[1], c[2], c[3], c[4])
     IN /\ EntriesOf(bal[1].heap[c[2]]) =
              Append(EntriesOf(c[1].heap[c[2]]), Head(EntriesOf(c[1].heap[c[3]])))
        /\ EntriesOf(bal[1].heap[c[3]]) = Tail(EntriesOf(c[1].heap[c[3]]))
        /\ bal[2] = LEFTMOST_KEY(c[1].heap[c[3]])
        /\ bal[2] = RIGHTMOST_KEY(bal[1].heap[c[2]])
        /\ bal[2] < LEFTMOST_KEY(bal[1].heap[c[3]])
        /\ ~bal[3]

(* C37 witness: a Delete is at its call of Balance on two leaves, the left *)
(* one entry below the underflow bound after the Delete, the right full.   *)
C37_Witness ==
  \E c \in BorrowFromRightCalls :
     /\ Size(c[1].heap[c[2]]) = UNDERFLOW_BOUND(caps.L) - 1
     /\ Size(c[1].heap[c[3]]) = caps.L
     /\ c[1].th[1].pc = "sibl"

(* C38: Balance on two leaves leaves the entries of the left followed by    *)
(* those of the right as they were, the right leaf counting for nothing    *)
(* after a merge; a merge leaves the left leaf with at most L entries and  *)
(* with the right sibling the right leaf had; a borrow changes no sibling  *)
(* pointer.                                                                *)
C38_BalanceKeepsEntries ==
  \A c \in LeafBalanceCalls :
     LET bal == LeafBalance(c[1], c[2], c[3], c[4])
         before == EntriesOf(c[1].heap[c[2]]) \o EntriesOf(c[1].heap[c[3]])
         left == bal[1].heap[c[2]]
         right == bal[1].heap[c[3]]
     IN /\ bal[3] => /\ EntriesOf(left) = before
                     /\ Size(left) <= caps.L
                     /\ "oob_leaf" \notin bal[1].ub
                     /\ left.right = c[1].heap[c[3]].right
        /\ ~bal[3] => /\ EntriesOf(left) \o EntriesOf(right) = before
                      /\ left.right = c[1].heap[c[2]].right
                      /\ right.right = c[1].heap[c[3]].right

(* C38 witness: a Delete is at its call of Balance on two leaves that it    *)
(* merges into a full leaf, the right leaf having a right sibling.         *)
C38_Witness ==
  \E c \in LeafBalanceCalls :
     /\ LeafBalance(c[1], c[2], c[3], c[4])[3]
     /\ Size(c[1].heap[c[2]]) + Size(c[1].heap[c[3]]) = caps.L
     /\ c[1].heap[c[3]].right # 0

----------------------------------------------------------------------------
(* The nodes an operation leaves alone *)

(* The leaf the descent for key reaches from node n by SearchChildIndex *)
RECURSIVE TargetLeaf(_, _, _, _)
TargetLeaf(h, n, key, fuel) ==
  IF fuel = 0 \/ n = 0 \/ h[n].kind # "INTERNAL" \/ Size(h[n]) = 0 THEN n
  ELSE TargetLeaf(h, At(h[n].child, SearchChildIndex(h[n], key)), key, fuel - 1)

(* Insert(k, v) on the present tree splits no node: its leaf holds k or has *)
(* room.  Delete(k) underflows no node: its leaf does not hold k, or holds *)
(* more than the underflow bound.                                          *)
NoSplitFor(k) ==
  LET leaf == heap[TargetLeaf(heap, root, k, MaxNodes)]
  IN k \in Range(leaf.keys) \/ Size(leaf) < caps.L

NoUnderflowFor(k) ==
  LET leaf == heap[TargetLeaf(heap, root, k, MaxNodes)]
  IN k \notin Range(leaf.keys) \/ Size(leaf) - 1 >= UNDERFLOW_BOUND(caps.L)

(* Machine res differs from the present state in the content of leaf n at  *)
(* most: same root, same nodes elsewhere, same sibling pointer of n.       *)
OnlyLeafChanged(res, n) ==
  /\ res.root = root
  /\ \A a \in NodeIds \ {n} : res.heap[a] = heap[a]
  /\ res.heap[n].kind = heap[n].kind
  /\ res.heap[n].right = heap[n].right
  /\ res.heap[n].child = heap[n].child

(* C39: an Insert that splits no node and a Delete that underflows no node  *)
(* change the entries of the target leaf and nothing else: the root, the   *)
(* separators, the child slots, the sibling pointers and the other leaves  *)
(* are after the call what they were before it.                            *)
C39_OnlyTargetLeafChanges ==
  MayCall(1) =>
    \A k \in Keys :
       LET n == TargetLeaf(heap, root, k, MaxNodes)
       IN /\ NoSplitFor(k) =>
               \A v \in Vals : \A res \in Outcomes(1, Run(CallOf(1, "Insert", k, v), 1)) :
                  res.th[1].pc = "idle" => OnlyLeafChanged(res, n)
          /\ NoUnderflowFor(k) =>
               \A res \in Outcomes(1, Run(CallOf(1, "Delete", k, 0), 1)) :
                  res.th[1].pc = "idle" => OnlyLeafChanged(res, n)

(* C39 witness: an Insert has returned without a split on a tree of two     *)
(* levels or more, and from here an Insert of a new key splits no node and *)
(* a Delete of a key of the tree underflows no node.                       *)
C39_Witness ==
  /\ Returned(1, "Insert")
  /\ ~th[1].ret
  /\ MayCall(1)
  /\ heap[root].kind = "INTERNAL"
  /\ \E k \in Keys : gmap[k] = 0 /\ NoSplitFor(k)
  /\ \E k \in Keys : /\ k \in Range(heap[TargetLeaf(heap, root, k, MaxNodes)].keys)
                     /\ NoUnderflowFor(k)

====
